---- MODULE Spec2Model ----
(***************************************************************************)
(* The write path of the NOVA DAX file operations (src/dax.c): one inode,  *)
(* its write-entry log, the logical-to-physical index, the persistent      *)
(* memory blocks it maps, the block allocator's free set and the data      *)
(* checksums.  A write call is a sequence of steps (start, one step per    *)
(* allocation run, the tail update, the reassignment pass and return); the *)
(* inode lock is held for the whole call, so no other operation on the     *)
(* inode interleaves with it.                                              *)
(***************************************************************************)
EXTENDS Integers, Sequences, FiniteSets, TLC

(* ------------------------------ bounds --------------------------------- *)
\* bytes per block (sb->s_blocksize, PAGE_SIZE), scaled down
BlockSize == 2
\* logical pages of the file's address space
NumPages == 2
\* physical data blocks 1..NumBlocks (block 0 is never a data block)
NumBlocks == 3
\* write-entry slots of the inode log; an append beyond it fails
MaxLog == 3
\* write and block-mapping calls per behaviour
MaxCalls == 3
\* epochs 0..MaxEpoch
MaxEpoch == 1
\* injected failures (allocation, append, protection, short copy) per behaviour
MaxFaults == 1
\* injected failures per behaviour of the specification of repeated failures
RepeatFaults == 2
\* write and mmap calls per behaviour of the specification with mappings and
\* media errors
MmapCalls == 2
\* calls per behaviour of the specification with block-mapping calls
BlocksCalls == 2
\* threads that run the same operation on the inode concurrently
NumThreads == 2
\* calls of nova_dax_get_blocks per behaviour of the specification of its
\* concurrent callers
GbCalls == 3
\* threads that call nova_dax_get_blocks concurrently
NumCallers == 3
\* write calls per behaviour of the specification with a concurrent reader
ReaderCalls == 2
\* write and block-mapping calls per behaviour of the specification of the locks
LockCalls == 2

(* ------------------------- program constants --------------------------- *)
EFAULT == -14
EIO == -5
EINVAL == -22
ENOSPC == -28
EACCES == -13
ENOMEM == -12

Pages == 0 .. NumPages - 1
Blocks == 1 .. NumBlocks
FileMax == NumPages * BlockSize
Addrs == BlockSize .. (NumBlocks + 1) * BlockSize - 1

\* A byte is <<call, i>>: byte i of the user buffer of write call number
\* `call`; call 0 holds the bytes no write call produced: a zero, what a block
\* held before it was allocated, a media error, a store through a mapping.
Zero == <<0, 0>>
Stale == <<0, 1>>
Corrupted == <<0, 2>>
Stored == <<0, 3>>
UserByte(call, i) == <<call, i>>

Min(a, b) == IF a < b THEN a ELSE b
Max(a, b) == IF a > b THEN a ELSE b

VARIABLES
    cfg,        \* module parameters: [inplace, csum, mmap_cow]
    budget,     \* what a behaviour may use: [calls, faults]
    mem,        \* persistent memory: byte address -> byte
    csum,       \* stored data checksum of each block
    free,       \* the allocator's free blocks
    log,        \* the inode log: sequence of entries (slot 1 first)
    log_tail,   \* sih->log_tail: the slot after the last committed entry
    tree,       \* sih->tree: logical page -> log slot of its entry (0: none)
    isize,      \* inode->i_size
    epoch,      \* the current epoch id
    snaps,      \* epochs pinned by a snapshot
    i_mmap,     \* mapping->i_mmap: the mappings of the file, <<pgoff, pages>>
    vma_tree,   \* sih->vma_tree: the shared-writable mappings it tracks
    pc,         \* position of the running call: idle, loop, commit, reassign
    w,          \* the running write call's local variables
    pre,        \* the state at the start of the last call (history)
    res,        \* the last call's result
    ncalls,     \* write calls started
    nfaults,    \* failures injected so far
    num_vmas,   \* sih->num_vmas: the counter of tracked mappings
    mmap_sih_list, \* is sih->list linked on sbi->mmap_sih_list
    rd,         \* a thread in nova_dax_file_read: its position and locals
    gb,         \* the threads in nova_dax_get_blocks with taking_lock
    vt          \* the threads in nova_insert_write_vma / nova_remove_write_vma

\* the threads that run beside the write call
threads == <<rd, gb, vt>>

\* the mapping counter and the registry of inodes with mappings
registry == <<num_vmas, mmap_sih_list>>

vars == <<cfg, budget, mem, csum, free, log, log_tail, tree, isize, epoch,
          snaps, i_mmap, vma_tree, pc, w, pre, res, ncalls, nfaults,
          registry, threads>>

\* the variables no write call changes
env == <<cfg, budget, epoch, snaps, i_mmap, vma_tree, registry, threads>>

(* --------------------------- block geometry ---------------------------- *)
\* dax.c:576-577, 841-842: offset in block and number of blocks spanned
BlkOffset(pos) == pos % BlockSize
NumBlocksOf(pos, count) == ((count + BlkOffset(pos) - 1) \div BlockSize) + 1
StartBlk(pos) == pos \div BlockSize

\* nova_get_block(nova_get_block_off(blocknr)): first byte address of a block
BlockAddr(b) == b * BlockSize
BlockImage(m, b) == [i \in 0 .. BlockSize - 1 |-> m[BlockAddr(b) + i]]

(* ----------------------------- the index ------------------------------- *)
\* nova_get_write_entry: the log slot of the entry the tree holds for a page
GetWriteEntry(tr, pg) == IF pg \in Pages THEN tr[pg] ELSE 0

\* get_nvmm: the physical block an entry maps a page to
GetNvmm(lg, e, pg) == lg[e].block + (pg - lg[e].pgoff)

\* nova_find_next_entry: the entry of the first mapped page at or after pg
FindNextEntry(tr, pg) ==
    LET later == {q \in Pages : q >= pg /\ tr[q] # 0}
    IN IF later = {} THEN 0
       ELSE tr[CHOOSE q \in later : \A r \in later : q <= r]

\* the bytes the file holds at each byte offset, through the index
ContentOf(tr, lg, m) ==
    [o \in 0 .. FileMax - 1 |->
        LET pg == o \div BlockSize
        IN IF tr[pg] = 0 THEN Zero
           ELSE m[BlockAddr(GetNvmm(lg, tr[pg], pg)) + (o % BlockSize)]]

Content == ContentOf(tree, log, mem)

(* -------------------------- data checksums ----------------------------- *)
\* The integrity code of a block image.  A collision-free code: two images
\* have the same code only when they are the same image.
CsumOf(image) == <<"csum", image>>
NoCsum == <<"none">>

\* nova_verify_data_csum(nvmm, offset, bytes): every block that holds a byte
\* of [offset, offset+bytes) counted from block nvmm has its stored code
VerifyDataCsum(m, cs, nvmm, offset, bytes) ==
    \A b \in nvmm + (offset \div BlockSize) ..
             nvmm + ((offset + bytes - 1) \div BlockSize) :
        b \in Blocks /\ cs[b] = CsumOf(BlockImage(m, b))

\* nova_find_pgoff_in_vma: is the page inside a mapping of the vma tree
FindPgoffInVma(mp, pg) == \E v \in mp : v[1] <= pg /\ pg < v[1] + v[2]

(* ------------------------ partial-block merger ------------------------- *)
\* a merge that zero-fills the old block's bytes as well
HandlePartialBlockZeroOld(m, lg, e, index, offset, length, kaddr) ==
    [a \in Addrs |->
        IF a >= kaddr + offset /\ a < kaddr + offset + length
        THEN IF e = 0 THEN Zero
             ELSE m[BlockAddr(GetNvmm(lg, e, index)) + (a - kaddr)]
        ELSE IF e # 0 /\ a >= BlockAddr(GetNvmm(lg, e, index)) + offset
                /\ a < BlockAddr(GetNvmm(lg, e, index)) + offset + length
        THEN Zero
        ELSE m[a]]

\* nova_handle_partial_block / nova_copy_partial_block (dax.c:185-224):
\* fill bytes [offset, offset+length) of the block at kaddr with zeroes when
\* no entry covers the page, with the old block's bytes otherwise
HandlePartialBlock(m, lg, e, index, offset, length, kaddr) ==
    [a \in Addrs |->
        IF a >= kaddr + offset /\ a < kaddr + offset + length
        THEN IF e = 0 THEN Zero
             ELSE m[BlockAddr(GetNvmm(lg, e, index)) + (a - kaddr)]
        ELSE m[a]]

\* nova_handle_head_tail_blocks (dax.c:231-274)
HandleHeadTailBlocks(m, tr, lg, pos, count, kaddr) ==
    LET offset == BlkOffset(pos)
        num_blocks == NumBlocksOf(pos, count)
        start_blk == StartBlk(pos)
        end_blk == start_blk + num_blocks - 1
        m1 == IF offset # 0
              THEN HandlePartialBlock(m, lg, GetWriteEntry(tr, start_blk),
                                      start_blk, 0, offset, kaddr)
              ELSE m
        kend == kaddr + (num_blocks - 1) * BlockSize
        eblk_offset == (pos + count) % BlockSize
    IN IF eblk_offset # 0
       THEN HandlePartialBlock(m1, lg, GetWriteEntry(tr, end_blk), end_blk,
                               eblk_offset, BlockSize - eblk_offset, kend)
       ELSE m1

\* a copy that lands in the block the index maps for the page instead of the
\* block at addr
CopyToMappedBlock(m, addr, call, bufoff, copied) ==
    LET pg == StartBlk(w.pos)
        old == IF tree[pg] = 0 THEN addr
               ELSE BlockAddr(GetNvmm(log, tree[pg], pg)) + BlkOffset(w.pos)
    IN [a \in Addrs |->
           IF a >= old /\ a < old + copied
           THEN UserByte(call, bufoff + (a - old))
           ELSE m[a]]

\* memcpy_to_pmem_nocache(kmem + offset, buf, bytes) with `copied` bytes
\* stored: bytes buf[bufoff .. bufoff+copied) of call `call`
CopyFromUser(m, addr, call, bufoff, copied) ==
    [a \in Addrs |->
        IF a >= addr /\ a < addr + copied
        THEN UserByte(call, bufoff + (a - addr))
        ELSE m[a]]

(* ---------------------- nova_protect_file_data ------------------------- *)
\* copy_from_user(blockbuf + at, buf, bytes)
BufCopy(blockbuf, at, call, bufoff, bytes) ==
    [i \in 0 .. BlockSize - 1 |->
        IF i >= at /\ i < at + bytes THEN UserByte(call, bufoff + (i - at))
        ELSE blockbuf[i]]

\* memcpy_from_pmem(blockbuf + at, blockptr + at, n)
BufFromPmem(blockbuf, m, nvmm, at, n) ==
    [i \in 0 .. BlockSize - 1 |->
        IF i >= at /\ i < at + n THEN m[BlockAddr(nvmm) + i] ELSE blockbuf[i]]

BufZero(blockbuf, at, n) ==
    [i \in 0 .. BlockSize - 1 |->
        IF i >= at /\ i < at + n THEN Zero ELSE blockbuf[i]]

\* nova_update_block_csum_parity(blockbuf, blocknr, 0, blocksize)
UpdateBlockCsum(cs, blockbuf, blocknr) ==
    IF blocknr \in Blocks THEN [cs EXCEPT ![blocknr] = CsumOf(blockbuf)] ELSE cs

\* dax.c:422-423, 479-480: the old data of a partial block is verified when
\* the page is in no shared-writable mapping and the run is not in place
MustVerify(mp, pg, inplace) == ~FindPgoffInVma(mp, pg) /\ ~inplace

\* eblk: (dax.c:468-507): the tail of the last block, then its checksum
ProtectTail(m, cs, tr, lg, mp, blockbuf, blocknr, pos, count, end_blk, num_blocks, inplace) ==
    LET eblk_offset == (pos + count) % BlockSize
        entry == GetWriteEntry(tr, end_blk)
        nvmm == GetNvmm(lg, entry, end_blk)
    IN IF eblk_offset # 0 /\ entry # 0 /\ MustVerify(mp, end_blk, inplace)
          /\ ~VerifyDataCsum(m, cs, nvmm, eblk_offset, BlockSize - eblk_offset)
       THEN [ret |-> EIO, csum |-> cs]
       ELSE LET bb == IF eblk_offset = 0 THEN blockbuf
                      ELSE IF entry # 0
                      THEN BufFromPmem(blockbuf, m, nvmm, eblk_offset,
                                       BlockSize - eblk_offset)
                      ELSE IF num_blocks > 1
                      THEN BufZero(blockbuf, eblk_offset,
                                   BlockSize - eblk_offset)
                      ELSE blockbuf
            IN [ret |-> 0, csum |-> UpdateBlockCsum(cs, bb, blocknr)]

\* the do-while loop (dax.c:446-466): one iteration per further block; kcopy
\* counts the copy_from_user calls made, pfault names the one that faults
RECURSIVE ProtectLoop(_, _, _, _, _, _, _, _, _, _, _, _, _, _, _, _, _)
ProtectLoop(m, cs, tr, lg, mp, blockbuf, blocknr, pos, count, bytes, call, bufoff, kcopy, pfault, end_blk, num_blocks, inplace) ==
    LET cs1 == UpdateBlockCsum(cs, blockbuf, blocknr)
        pos1 == pos + bytes
        bufoff1 == bufoff + bytes
        count1 == count - bytes
        bytes1 == Min(count1, BlockSize)
        bb1 == BufCopy(blockbuf, 0, call, bufoff1, bytes1)
    IN IF pfault = kcopy + 1 THEN [ret |-> EFAULT, csum |-> cs1]
       ELSE IF count1 > BlockSize
       THEN ProtectLoop(m, cs1, tr, lg, mp, bb1, blocknr + 1, pos1, count1,
                        bytes1, call, bufoff1, kcopy + 1, pfault, end_blk,
                        num_blocks, inplace)
       ELSE ProtectTail(m, cs1, tr, lg, mp, bb1, blocknr + 1, pos1, count1,
                        end_blk, num_blocks, inplace)

\* nova_protect_file_data (dax.c:372-515): [ret, csum]
ProtectFileData(m, cs, tr, lg, mp, pos, count, call, bufoff, blocknr, inplace, pfault) ==
    LET offset == BlkOffset(pos)
        num_blocks == NumBlocksOf(pos, count)
        start_blk == StartBlk(pos)
        end_blk == start_blk + num_blocks - 1
        zeroed == [i \in 0 .. BlockSize - 1 |-> Zero]
        bytes == Min(BlockSize - offset, count)
        bb0 == BufCopy(zeroed, offset, call, bufoff, bytes)
        entry == GetWriteEntry(tr, start_blk)
        nvmm == GetNvmm(lg, entry, start_blk)
    IN IF pfault = 1 THEN [ret |-> EFAULT, csum |-> cs]
       ELSE IF offset # 0 /\ entry # 0 /\ MustVerify(mp, start_blk, inplace)
               /\ ~VerifyDataCsum(m, cs, nvmm, 0, offset)
       THEN [ret |-> EIO, csum |-> cs]
       ELSE LET bb == IF offset # 0 /\ entry # 0
                      THEN BufFromPmem(bb0, m, nvmm, 0, offset)
                      ELSE bb0
            IN IF num_blocks = 1
               THEN ProtectTail(m, cs, tr, lg, mp, bb, blocknr, pos, count,
                                end_blk, num_blocks, inplace)
               ELSE ProtectLoop(m, cs, tr, lg, mp, bb, blocknr, pos, count,
                                bytes, call, bufoff, 1, pfault, end_blk,
                                num_blocks, inplace)

(* ------------------------- allocator interface ------------------------- *)
\* nova_new_data_blocks(start_blk, num, zero): the runs the allocator may
\* return.  A first-fit allocator: the run starts at the lowest free block
\* and is contiguous, free, and no longer than requested
AllocRuns(fr, num) ==
    {r \in Blocks \X (1 .. NumBlocks) :
        /\ r[2] <= num
        /\ \A b \in fr : r[1] <= b
        /\ \A b \in r[1] .. r[1] + r[2] - 1 : b \in fr}

\* nova_free_data_blocks(blocknr, num)
FreeDataBlocks(fr, blocknr, num) == fr \cup (blocknr .. blocknr + num - 1)

(* ------------------------------ the log -------------------------------- *)
FILE_WRITE == "FILE_WRITE"
MMAP_WRITE == "MMAP_WRITE"

\* a marker that does not record the pages of the mapping
MmapEntryNoRange(epoch_id, pgoff, num_pages) ==
    [entry_type |-> MMAP_WRITE, reassigned |-> 0, updating |-> 0,
     epoch_id |-> epoch_id, pgoff |-> 0, num_pages |-> 0,
     invalid_pages |-> 0, block |-> 0, size |-> 0]

\* the MMAP_WRITE marker of nova_append_write_mmap_to_log (dax.c:1684-1690)
MmapEntry(epoch_id, pgoff, num_pages) ==
    [entry_type |-> MMAP_WRITE, reassigned |-> 0, updating |-> 0,
     epoch_id |-> epoch_id, pgoff |-> pgoff, num_pages |-> num_pages,
     invalid_pages |-> 0, block |-> 0, size |-> 0]

\* nova_init_file_write_entry (dax.c:352-370)
InitFileWriteEntry(epoch_id, pgoff, num_pages, blocknr, file_size) ==
    [entry_type |-> FILE_WRITE, reassigned |-> 0, updating |-> 0,
     epoch_id |-> epoch_id, pgoff |-> pgoff, num_pages |-> num_pages,
     invalid_pages |-> 0, block |-> blocknr, size |-> file_size]

\* nova_append_file_write_entry: the entry is stored in the slot update.tail
\* names; the slots behind it are not part of the log any more
AppendEntry(lg, tail, entry) == Append(SubSeq(lg, 1, tail - 1), entry)

\* does a snapshot still need the blocks of an entry of epoch `old` that an
\* entry of epoch `new` supersedes
SnapshotHolds(sn, old, new) == \E s \in sn : old <= s /\ s < new

\* nova_assign_write_entry(entry, free): the tree maps every page of the entry
\* at slot e to it; each page taken from an older entry counts as invalid in
\* that entry, and the blocks of an entry all of whose pages are invalid go
\* back to the allocator unless a snapshot holds them.  st = [log, tree, free]
RECURSIVE AssignPages(_, _, _, _)
AssignPages(st, sn, e, i) ==
    IF i >= st.log[e].num_pages THEN st
    ELSE LET pg == st.log[e].pgoff + i
             old == st.tree[pg]
             tr1 == [st.tree EXCEPT ![pg] = e]
         IN IF old = 0 \/ old = e
            THEN AssignPages([st EXCEPT !.tree = tr1], sn, e, i + 1)
            ELSE LET oe == st.log[old]
                     inv == oe.invalid_pages + 1
                     lg1 == [st.log EXCEPT ![old].invalid_pages = inv,
                                           ![old].reassigned = 1]
                     fr1 == IF inv = oe.num_pages
                               /\ ~SnapshotHolds(sn, oe.epoch_id,
                                                 st.log[e].epoch_id)
                            THEN FreeDataBlocks(st.free, oe.block,
                                                oe.num_pages)
                            ELSE st.free
                 IN AssignPages([log |-> lg1, tree |-> tr1, free |-> fr1],
                                sn, e, i + 1)

AssignWriteEntry(st, sn, e) == AssignPages(st, sn, e, 0)

\* a pass that takes every entry for a write entry
IsFileWriteAny(entry) == TRUE

\* dax.c:296: nova_get_entry_type(entry_data) != FILE_WRITE is skipped
IsFileWrite(entry) == entry.entry_type = FILE_WRITE

\* nova_reassign_file_tree (dax.c:276-308): from slot curr_p to the tail.
\* The log pages are linked up to the last slot written, so a walk that
\* leaves the written slots before it meets the tail finds next_log_page
\* null.  st = [log, tree, free, ret]
RECURSIVE ReassignWalk(_, _, _, _)
ReassignWalk(st, sn, curr_p, tail) ==
    IF curr_p = 0 \/ curr_p = tail THEN st
    ELSE IF curr_p > Len(st.log) THEN [st EXCEPT !.ret = EINVAL]
    ELSE IF ~IsFileWrite(st.log[curr_p])
    THEN ReassignWalk(st, sn, curr_p + 1, tail)
    ELSE LET a == AssignWriteEntry([log |-> st.log, tree |-> st.tree,
                                    free |-> st.free], sn, curr_p)
         IN ReassignWalk([log |-> a.log, tree |-> a.tree, free |-> a.free,
                          ret |-> st.ret], sn, curr_p + 1, tail)

ReassignFileTree(lg, tr, fr, sn, begin_tail, tail) ==
    ReassignWalk([log |-> lg, tree |-> tr, free |-> fr, ret |-> 0], sn,
                 begin_tail, tail)

\* nova_cleanup_incomplete_write (dax.c:310-350): the free set afterwards
RECURSIVE CleanupWalk(_, _, _, _)
CleanupWalk(fr, lg, curr_p, end_tail) ==
    IF curr_p = end_tail \/ curr_p > Len(lg) THEN fr
    ELSE IF lg[curr_p].entry_type # FILE_WRITE
    THEN CleanupWalk(fr, lg, curr_p + 1, end_tail)
    ELSE CleanupWalk(FreeDataBlocks(fr, lg[curr_p].block,
                                    lg[curr_p].num_pages),
                     lg, curr_p + 1, end_tail)

\* a cleanup that frees the last run's blocks and not those of the appended entries
CleanupLastRunOnly(fr, lg, blocknr, allocated, begin_tail, end_tail) ==
    IF blocknr > 0 /\ allocated > 0
    THEN FreeDataBlocks(fr, blocknr, allocated)
    ELSE fr

CleanupIncompleteWrite(fr, lg, blocknr, allocated, begin_tail, end_tail) ==
    LET fr1 == IF blocknr > 0 /\ allocated > 0
               THEN FreeDataBlocks(fr, blocknr, allocated)
               ELSE fr
    IN IF begin_tail = 0 \/ end_tail = 0 THEN fr1
       ELSE CleanupWalk(fr1, lg, begin_tail, end_tail)

(* ------------------------------ read path ------------------------------ *)
\* do_dax_mapping_read's loop (dax.c:66-152): [copied, error, data, einval]
RECURSIVE ReadLoop(_, _, _, _, _)
ReadLoop(index, offset, copied, len, out) ==
    LET end_index == (isize - 1) \div BlockSize
        entry == GetWriteEntry(tree, index)
        stop == [copied |-> copied, error |-> 0, data |-> out,
                 einval |-> FALSE]
    IN IF index > end_index THEN stop
       ELSE IF index = end_index /\ ((isize - 1) % BlockSize) + 1 <= offset
       THEN stop
       ELSE IF entry = 0
       THEN \* a hole: zero bytes
            LET nr == Min(BlockSize - offset, len - copied)
                out1 == out \o [i \in 1 .. nr |-> Zero]
                offset1 == offset + nr
            IN IF copied + nr < len
               THEN ReadLoop(index + (offset1 \div BlockSize),
                             offset1 % BlockSize, copied + nr, len, out1)
               ELSE [stop EXCEPT !.copied = copied + nr, !.data = out1]
       ELSE IF index < log[entry].pgoff
               \/ index - log[entry].pgoff >= log[entry].num_pages
       THEN [stop EXCEPT !.einval = TRUE]
       ELSE LET nr0 == IF log[entry].reassigned = 0
                       THEN (log[entry].num_pages
                             - (index - log[entry].pgoff)) * BlockSize
                       ELSE BlockSize
                nvmm == GetNvmm(log, entry, index)
                nr == Min(nr0 - offset, len - copied)
                out1 == out \o [i \in 1 .. nr |->
                                  mem[BlockAddr(nvmm) + offset + (i - 1)]]
                offset1 == offset + nr
            IN IF cfg.csum /\ ~FindPgoffInVma(vma_tree, index)
                  /\ ~VerifyDataCsum(mem, csum, nvmm, offset, nr)
               THEN [stop EXCEPT !.error = EIO]
               ELSE IF copied + nr < len
               THEN ReadLoop(index + (offset1 \div BlockSize),
                             offset1 % BlockSize, copied + nr, len, out1)
               ELSE [stop EXCEPT !.copied = copied + nr, !.data = out1]

\* a read that takes the length as it was passed
ClampLenNever(pos, len) == len

\* dax.c:59-60: if (len > isize - pos) len = isize - pos.  len is unsigned:
\* it is clamped to isize - pos only when that difference is not negative
ClampLen(pos, len) ==
    IF isize - pos >= 0 /\ len > isize - pos THEN isize - pos ELSE len

\* a read that starts at the first byte of the page of pos
DoReadFromPageStart(pos, len) ==
    LET len1 == ClampLen(pos, len)
        r == IF isize = 0 \/ len1 <= 0
             THEN [copied |-> 0, error |-> 0, data |-> <<>>,
                   einval |-> FALSE]
             ELSE ReadLoop(pos \div BlockSize, 0, 0, len1, <<>>)
    IN IF r.einval THEN [ret |-> EINVAL, data |-> r.data, ppos |-> pos]
       ELSE [ret |-> IF r.copied # 0 THEN r.copied ELSE r.error,
             data |-> r.data, ppos |-> pos + r.copied]

\* do_dax_mapping_read up to `out:` (dax.c:43-152): [copied, error, data,
\* einval]
ReadRun(pos, len) ==
    LET len1 == ClampLen(pos, len)
    IN IF isize = 0 \/ len1 <= 0
       THEN [copied |-> 0, error |-> 0, data |-> <<>>, einval |-> FALSE]
       ELSE ReadLoop(pos \div BlockSize, pos % BlockSize, 0, len1, <<>>)

\* do_dax_mapping_read (dax.c:28-163): [ret, data, ppos]
DoRead(pos, len) ==
    LET r == ReadRun(pos, len)
    IN IF r.einval THEN [ret |-> EINVAL, data |-> r.data, ppos |-> pos]
       ELSE [ret |-> IF r.copied # 0 THEN r.copied ELSE r.error,
             data |-> r.data, ppos |-> pos + r.copied]

(* ------------------------------ the state ------------------------------ *)
NoCall == [op |-> "none"]
NoRes == [op |-> "none"]
NoPre == [op |-> "none"]

\* the threads that call nova_dax_get_blocks, and those that open and close
\* mappings
GbThreads == 1 .. NumCallers
VmaThreads == 1 .. NumThreads

\* a file just created: no block, no entry, size 0
EmptyFile ==
    /\ mem = [a \in Addrs |-> Stale]
    /\ csum = [b \in Blocks |-> NoCsum]
    /\ free = Blocks
    /\ log = <<>>
    /\ log_tail = 1
    /\ tree = [pg \in Pages |-> 0]
    /\ isize = 0
    /\ epoch = 0
    /\ snaps = {}
    /\ i_mmap = {}
    /\ vma_tree = {}
    /\ pc = "idle"
    /\ w = NoCall
    /\ pre = NoPre
    /\ res = NoRes
    /\ ncalls = 0
    /\ nfaults = 0
    /\ num_vmas = 0
    /\ mmap_sih_list = FALSE
    /\ rd = [pc |-> "idle"]
    /\ gb = [t \in GbThreads |-> [pc |-> "idle"]]
    /\ vt = [t \in VmaThreads |-> [pc |-> "idle"]]

Init ==
    /\ cfg \in [inplace : BOOLEAN, csum : BOOLEAN, mmap_cow : {FALSE}]
    /\ budget = [calls |-> MaxCalls, faults |-> MaxFaults]
    /\ EmptyFile

\* recovery after a crash: the index is rebuilt from the committed entries,
\* slot 1 to the slot before the tail, a later entry taking the page
RECURSIVE Replay(_, _, _, _)
Replay(lg, tail, e, tr) ==
    IF e >= tail \/ e > Len(lg) THEN tr
    ELSE IF lg[e].entry_type # FILE_WRITE THEN Replay(lg, tail, e + 1, tr)
    ELSE Replay(lg, tail, e + 1,
                [pg \in Pages |->
                    IF pg >= lg[e].pgoff /\ pg < lg[e].pgoff + lg[e].num_pages
                    THEN e ELSE tr[pg]])

RecoverTree(lg, tail) == Replay(lg, tail, 1, [pg \in Pages |-> 0])

RecoveredContent == ContentOf(RecoverTree(log, log_tail), log, mem)

\* the state a call starts from, kept to state what the call changed
Snapshot(op) ==
    [op |-> op, content |-> Content, tree |-> tree, free |-> free,
     log_tail |-> log_tail, isize |-> isize, mem |-> mem,
     log |-> SubSeq(log, 1, log_tail - 1), recovered |-> RecoveredContent,
     read |-> DoRead(0, FileMax), all_log |-> log, csum |-> csum,
     mapped |-> i_mmap # {}]

\* dax.c:559-561, 824-826: sb_start_write, then inode_lock (need_lock is
\* true in both calls of nova_dax_file_write).  The call record counts the
\* acquisitions and releases of the call
AcquireWrite(ww) == [ww EXCEPT !.sb_start = @ + 1, !.inode_lock = @ + 1]

\* an exit that leaves the inode locked
ReleaseWriteSbOnly(ww) == [ww EXCEPT !.sb_end = @ + 1]

\* dax.c:706-708, 1008-1010: inode_unlock, then sb_end_write
ReleaseWrite(ww) == [ww EXCEPT !.inode_unlock = @ + 1, !.sb_end = @ + 1]

\* the local variables of nova_cow_file_write / nova_inplace_file_write after
\* dax.c:567-594 / 832-859
StartLocals(op, pos, len) ==
    [op |-> op, call |-> ncalls + 1, ppos |-> pos, len |-> len,
     pos |-> pos, count |-> len,
     num_blocks |-> NumBlocksOf(pos, len),
     total_blocks |-> NumBlocksOf(pos, len),
     written |-> 0, status |-> 0, step |-> 0, fail |-> "none",
     time_set |-> TRUE, hole_fill |-> FALSE, flag_at_copy |-> 0,
     blocknr |-> 0, allocated |-> 0, i_blocks |-> 0,
     sb_start |-> 0, inode_lock |-> 0, inode_unlock |-> 0, sb_end |-> 0,
     append |-> FALSE,
     begin_tail |-> 0, update_log |-> FALSE,
     epoch_id |-> epoch,
     upd_tail |-> log_tail, upd_curr |-> 0]

\* a size update that stores the position whatever the size was
SizeAfterAlways(ww, size) == ww.pos

\* dax.c:696-699, 998-1001: if (pos > inode->i_size) i_size_write(inode, pos)
SizeAfter(ww, size) == IF ww.pos > size THEN ww.pos ELSE size

\* `out:` of a write call (dax.c:701-711, 1003-1013) with return value ret:
\* the cleanup when ret < 0, then the return.  fr, m, cs, lg: the free set,
\* memory, checksums and log when `out:` is reached
WriteOut(ret, ww, fr, m, cs, lg) ==
    /\ free' = IF ret < 0
               THEN CleanupIncompleteWrite(fr, lg, ww.blocknr, ww.allocated,
                                           ww.begin_tail, ww.upd_tail)
               ELSE fr
    /\ mem' = m
    /\ csum' = cs
    /\ log' = lg
    /\ w' = ReleaseWrite(ww)
    /\ res' = [op |-> ww.op, ret |-> ret,
                ppos |-> IF ret >= 0 THEN ww.pos ELSE ww.ppos]
    /\ pc' = "done"

\* a bookkeeping that leaves the position where the run started
AfterCopyNoAdvance(ww, copied, bytes) ==
    LET w1 == IF copied > 0
              THEN [ww EXCEPT !.status = copied,
                              !.written = @ + copied,
                              !.count = @ - copied,
                              !.num_blocks = @ - ww.allocated]
              ELSE ww
    IN IF copied # bytes /\ w1.status >= 0
       THEN [w1 EXCEPT !.status = EFAULT, !.fail = "copy"]
       ELSE w1

\* dax.c:655-675 / 951-974: the bookkeeping after a run copied `copied` of
\* `bytes` bytes
AfterCopy(ww, copied, bytes) ==
    LET w1 == IF copied > 0
              THEN [ww EXCEPT !.status = copied,
                              !.written = @ + copied,
                              !.pos = @ + copied,
                              !.count = @ - copied,
                              !.num_blocks = @ - ww.allocated]
              ELSE ww
    IN IF copied # bytes /\ w1.status >= 0
       THEN [w1 EXCEPT !.status = EFAULT, !.fail = "copy"]
       ELSE w1

\* fault injection: a run meets at most one of a short copy, a failure of
\* the protection step and a failure of the log append
OneFault(a, b, c) ==
    LET n == (IF a THEN 1 ELSE 0) + (IF b THEN 1 ELSE 0)
             + (IF c THEN 1 ELSE 0)
    IN /\ n <= 1
       /\ nfaults + n <= budget.faults
       /\ nfaults' = nfaults + n

\* the allocator returns -ENOSPC: it has no free block, or the failure is
\* injected
AllocFails(num) ==
    IF AllocRuns(free, num) = {} THEN nfaults' = nfaults
    ELSE /\ nfaults < budget.faults
         /\ nfaults' = nfaults + 1

\* dax.c:601-610, 879-888: `allocated` takes the allocator's return value,
\* which is the error
AllocFailed(ww) == [ww EXCEPT !.allocated = ENOSPC, !.fail = "alloc"]

\* the blocks nova_free_data_blocks(sb, sih, blocknr, num) is called for
FreedBlocks(blocknr, num) == [i \in 1 .. num |-> blocknr + i - 1]

\* nova_cleanup_incomplete_write (dax.c:310-350): the blocks passed to
\* nova_free_data_blocks, call by call
RECURSIVE CleanupFreedWalk(_, _, _)
CleanupFreedWalk(lg, curr_p, end_tail) ==
    IF curr_p = end_tail \/ curr_p > Len(lg) THEN <<>>
    ELSE IF lg[curr_p].entry_type # FILE_WRITE
    THEN CleanupFreedWalk(lg, curr_p + 1, end_tail)
    ELSE FreedBlocks(lg[curr_p].block, lg[curr_p].num_pages)
         \o CleanupFreedWalk(lg, curr_p + 1, end_tail)

CleanupFreed(lg, blocknr, allocated, begin_tail, end_tail) ==
    LET first == IF blocknr > 0 /\ allocated > 0
                 THEN FreedBlocks(blocknr, allocated)
                 ELSE <<>>
    IN IF begin_tail = 0 \/ end_tail = 0 THEN first
       ELSE first \o CleanupFreedWalk(lg, begin_tail, end_tail)

(* ---------------------------- the inode lock -------------------------- *)
\* a write call holds the inode lock from inode_lock (dax.c:561, 826) to
\* inode_unlock (dax.c:707, 1009)
WriteLocked == pc \in {"loop", "commit", "reassign"}

\* a reader holds the lock shared from dax.c:178 to dax.c:180
ReadLocked == rd.pc = "locked"

\* a caller of nova_dax_get_blocks holds the lock from dax.c:1089 to 1153
BlocksLocked == \E u \in DOMAIN gb : gb[u].pc = "locked"

\* inode_lock(inode) returns when no thread holds the lock
InodeLockFree == ~WriteLocked /\ ~ReadLocked /\ ~BlocksLocked

(* ----------------------- nova_cow_file_write --------------------------- *)
\* an entry of the call without the test of mapping_mapped
CowStartNoCheck(pos, len) ==
    /\ pc = "idle"
    /\ ~cfg.inplace
    /\ InodeLockFree
    /\ ncalls < budget.calls
    /\ ncalls' = ncalls + 1
    /\ pre' = Snapshot("cow")
    /\ w' = AcquireWrite(StartLocals("cow", pos, len))
    /\ pc' = "loop"
    /\ res' = NoRes
    /\ UNCHANGED <<env, mem, csum, free, log, log_tail, tree, isize, nfaults>>

\* dax.c:547-594
CowStart(pos, len) ==
    /\ pc = "idle"
    /\ ~cfg.inplace
    /\ ncalls < budget.calls
    /\ ncalls' = ncalls + 1
    /\ pre' = Snapshot("cow")
    /\ IF i_mmap # {}
       THEN /\ res' = [op |-> "cow", ret |-> EACCES, ppos |-> pos]
            /\ w' = [StartLocals("cow", pos, len) EXCEPT !.time_set = FALSE]
            /\ pc' = "done"
       ELSE /\ InodeLockFree
            /\ w' = AcquireWrite(StartLocals("cow", pos, len))
            /\ pc' = "loop"
            /\ res' = NoRes
    /\ UNCHANGED <<env, mem, csum, free, log, log_tail, tree, isize, nfaults>>

\* one iteration of the loop (dax.c:595-675) that gets `run` from the
\* allocator, stores `copied` bytes, and meets the named failure
CowRunWith(run, copied, pfault, afail) ==
    LET offset == BlkOffset(w.pos)
        start_blk == StartBlk(w.pos)
        blocknr == run[1]
        allocated == run[2]
        fr == free \ (blocknr .. blocknr + allocated - 1)
        bytes == Min(BlockSize * allocated - offset, w.count)
        kaddr == BlockAddr(blocknr)
        m1 == IF offset # 0 \/ (offset + bytes) % BlockSize # 0
              THEN HandleHeadTailBlocks(mem, tree, log, w.pos, bytes, kaddr)
              ELSE mem
        m2 == CopyFromUser(m1, kaddr + offset, w.call, w.written, copied)
        pr == IF cfg.csum
              THEN ProtectFileData(m2, csum, tree, log, vma_tree, w.pos, bytes,
                                   w.call, w.written, blocknr, FALSE, pfault)
              ELSE [ret |-> 0, csum |-> csum]
        file_size == IF w.pos + copied > isize THEN w.pos + copied ELSE isize
        entry == InitFileWriteEntry(w.epoch_id, start_blk, allocated, blocknr,
                                    file_size)
        w1 == [w EXCEPT !.blocknr = blocknr, !.allocated = allocated,
                        !.step = @ + 1]
        w2 == [w1 EXCEPT !.upd_curr = w.upd_tail, !.upd_tail = @ + 1]
        w3 == AfterCopy(w2, copied, bytes)
        w4 == IF w3.status >= 0 /\ w3.begin_tail = 0
              THEN [w3 EXCEPT !.begin_tail = w3.upd_curr]
              ELSE w3
    IN /\ copied <= bytes
       /\ OneFault(copied < bytes, pfault # 0, afail)
       /\ IF pr.ret # 0
          THEN WriteOut(pr.ret, [w1 EXCEPT !.fail = "protect"], fr, m2,
                        pr.csum, log)
          ELSE IF afail \/ w.upd_tail > MaxLog
          THEN WriteOut(ENOSPC, [w1 EXCEPT !.fail = "append"], fr, m2,
                        pr.csum, log)
          ELSE /\ mem' = m2
               /\ csum' = pr.csum
               /\ free' = fr
               /\ log' = AppendEntry(log, w.upd_tail, entry)
               /\ w' = w4
               /\ pc' = IF w4.status < 0 \/ w4.num_blocks = 0 THEN "commit"
                        ELSE "loop"
               /\ res' = res

\* a loop iteration that also stores the inode's tail after its append
CowRunTailPerRun ==
    /\ pc = "loop"
    /\ w.op = "cow"
    /\ \/ /\ AllocFails(w.num_blocks)
          /\ WriteOut(ENOSPC, AllocFailed(w), free, mem, csum, log)
       \/ \E run \in AllocRuns(free, w.num_blocks) :
          \E copied \in 0 .. BlockSize * run[2],
             pfault \in 0 .. (IF cfg.csum THEN run[2] ELSE 0),
             afail \in BOOLEAN :
             /\ CowRunWith(run, copied, pfault, afail)
    /\ log_tail' = IF pc' = "done" THEN log_tail ELSE w'.upd_tail
    /\ UNCHANGED <<env, tree, isize, pre, ncalls>>

CowRun ==
    /\ pc = "loop"
    /\ w.op = "cow"
    /\ \/ \* the allocator fails (dax.c:605-610)
          /\ AllocFails(w.num_blocks)
          /\ WriteOut(ENOSPC, AllocFailed(w), free, mem, csum, log)
       \/ \E run \in AllocRuns(free, w.num_blocks) :
          \E copied \in 0 .. BlockSize * run[2],
             pfault \in 0 .. (IF cfg.csum THEN run[2] ELSE 0),
             afail \in BOOLEAN :
             /\ CowRunWith(run, copied, pfault, afail)
    /\ UNCHANGED <<env, log_tail, tree, isize, pre, ncalls>>

\* dax.c:677-678, 976-977: sih->i_blocks += total_blocks, the number of
\* blocks the byte range of the call spans.  i_blocks of the call record is
\* the inode's block count less its value when the call started
AddBlocks(ww) == [ww EXCEPT !.i_blocks = @ + ww.total_blocks]

\* a tail update that stores the slot of the last entry, not the slot after it
CowCommitCurrEntry ==
    /\ pc = "commit"
    /\ w.op = "cow"
    /\ log_tail' = w.upd_curr
    /\ w' = AddBlocks(w)
    /\ pc' = "reassign"
    /\ UNCHANGED <<env, mem, csum, free, log, tree, isize, pre, res,
                   ncalls, nfaults>>

\* dax.c:677-682: the block count is raised and the inode's tail is set to
\* update.tail
CowCommit ==
    /\ pc = "commit"
    /\ w.op = "cow"
    /\ log_tail' = w.upd_tail
    /\ w' = AddBlocks(w)
    /\ pc' = "reassign"
    /\ UNCHANGED <<env, mem, csum, free, log, tree, isize, pre, res,
                   ncalls, nfaults>>

\* dax.c:684-711: the reassignment pass, the size update and the return
WriteFinish(op) ==
    /\ pc = "reassign"
    /\ w.op = op
    /\ LET st == ReassignFileTree(log, tree, free, snaps, w.begin_tail,
                                  log_tail)
       IN IF st.ret # 0
          THEN /\ WriteOut(st.ret, w, st.free, mem, csum, st.log)
               /\ tree' = st.tree
               /\ isize' = isize
          ELSE /\ WriteOut(w.written, w, st.free, mem, csum, st.log)
               /\ tree' = st.tree
               /\ isize' = SizeAfter(w, isize)
    /\ UNCHANGED <<env, log_tail, pre, ncalls, nfaults>>

CowFinish == WriteFinish("cow")

(* ---------------------- nova_inplace_file_write ------------------------ *)
\* a lookup that reports the whole run whatever the caller asked for
ClampBlocksNever(ent_blks, num_blocks) == ent_blks

\* dax.c:743-744: if (ent_blks > num_blocks) ent_blks = num_blocks
ClampBlocks(ent_blks, num_blocks) == Min(ent_blks, num_blocks)

\* a lookup that lets a run reuse the extent of an entry of any epoch
CheckExistingEntryAnyEpoch(tr, lg, num_blocks, start_blk, check_next, epoch_id) ==
    LET entry == GetWriteEntry(tr, start_blk)
        next == FindNextEntry(tr, start_blk)
    IN IF entry # 0
       THEN [ent_blks |-> Min(IF lg[entry].reassigned = 0
                              THEN lg[entry].num_pages
                                   - (start_blk - lg[entry].pgoff)
                              ELSE 1,
                              num_blocks),
             entry |-> entry, inplace |-> TRUE, bug |-> FALSE]
       ELSE IF next = 0
       THEN [ent_blks |-> num_blocks, entry |-> 0, inplace |-> FALSE,
             bug |-> FALSE]
       ELSE [ent_blks |-> Min(lg[next].pgoff - start_blk, num_blocks),
             entry |-> 0, inplace |-> FALSE, bug |-> FALSE]

\* nova_check_existing_entry (dax.c:718-782): [ent_blks, entry, inplace, bug]
CheckExistingEntry(tr, lg, num_blocks, start_blk, check_next, epoch_id) ==
    LET entry == GetWriteEntry(tr, start_blk)
        next == FindNextEntry(tr, start_blk)
    IN IF entry # 0
       THEN [ent_blks |-> ClampBlocks(IF lg[entry].reassigned = 0
                                      THEN lg[entry].num_pages
                                           - (start_blk - lg[entry].pgoff)
                                      ELSE 1,
                                      num_blocks),
             entry |-> entry,
             inplace |-> lg[entry].epoch_id = epoch_id,
             bug |-> FALSE]
       ELSE IF ~check_next
       THEN [ent_blks |-> 0, entry |-> 0, inplace |-> FALSE, bug |-> FALSE]
       ELSE IF next = 0
       THEN [ent_blks |-> num_blocks, entry |-> 0, inplace |-> FALSE,
             bug |-> FALSE]
       ELSE IF lg[next].pgoff <= start_blk
       THEN [ent_blks |-> num_blocks, entry |-> 0, inplace |-> FALSE,
             bug |-> TRUE]
       ELSE [ent_blks |-> Min(lg[next].pgoff - start_blk, num_blocks),
             entry |-> 0, inplace |-> FALSE, bug |-> FALSE]

\* nova_inplace_update_write_entry: the epoch and size of the entry are
\* rewritten in its slot and its updating flag cleared
InplaceUpdateWriteEntry(lg, e, epoch_id, file_size) ==
    [lg EXCEPT ![e].epoch_id = epoch_id, ![e].size = file_size,
               ![e].updating = 0]

\* nova_set_write_entry_updating(entry, val)
SetWriteEntryUpdating(lg, e, val) == [lg EXCEPT ![e].updating = val]

\* a run that leaves the updating flag of the entry as it is
MarkUpdatingNever(lg, hole_fill, entry) == lg

\* dax.c:874-875: with checksums or parity, a run that reuses the extent of
\* an entry sets the entry's updating flag first
MarkUpdating(lg, hole_fill, entry) ==
    IF ~hole_fill /\ cfg.csum THEN SetWriteEntryUpdating(lg, entry, 1) ELSE lg

\* dax.c:819-859
InplaceStart(pos, len) ==
    /\ pc = "idle"
    /\ cfg.inplace
    /\ InodeLockFree
    /\ ncalls < budget.calls
    /\ ncalls' = ncalls + 1
    /\ pre' = Snapshot("inplace")
    /\ w' = AcquireWrite(StartLocals("inplace", pos, len))
    /\ pc' = "loop"
    /\ res' = NoRes
    /\ UNCHANGED <<env, mem, csum, free, log, log_tail, tree, isize, nfaults>>

\* one iteration of the loop (dax.c:860-974) from the point where the blocks
\* to write are known: blocknr, allocated, hole_fill
InplaceRunWith(blocknr, allocated, hole_fill, entry, copied, pfault, afail) ==
    LET offset == BlkOffset(w.pos)
        start_blk == StartBlk(w.pos)
        fr == IF hole_fill THEN free \ (blocknr .. blocknr + allocated - 1)
              ELSE free
        lg0 == MarkUpdating(log, hole_fill, entry)
        bytes == Min(BlockSize * allocated - offset, w.count)
        kaddr == BlockAddr(blocknr)
        m1 == IF hole_fill
                 /\ (offset # 0 \/ (offset + bytes) % BlockSize # 0)
              THEN HandleHeadTailBlocks(mem, tree, lg0, w.pos, bytes, kaddr)
              ELSE mem
        m2 == CopyFromUser(m1, kaddr + offset, w.call, w.written, copied)
        pr == IF cfg.csum
              THEN ProtectFileData(m2, csum, tree, lg0, vma_tree, w.pos, bytes,
                                   w.call, w.written, blocknr, ~hole_fill,
                                   pfault)
              ELSE [ret |-> 0, csum |-> csum]
        file_size == IF w.pos + copied > isize THEN w.pos + copied ELSE isize
        new_entry == InitFileWriteEntry(w.epoch_id, start_blk, allocated,
                                        blocknr, file_size)
        w1 == [w EXCEPT !.blocknr = blocknr, !.allocated = allocated,
                        !.step = @ + 1, !.hole_fill = hole_fill,
                        !.flag_at_copy = IF hole_fill THEN 0
                                         ELSE lg0[entry].updating]
        w2 == IF hole_fill
              THEN [w1 EXCEPT !.upd_curr = w.upd_tail, !.upd_tail = @ + 1]
              ELSE w1
        w3 == AfterCopy(w2, copied, bytes)
        w4 == IF w3.status >= 0 /\ hole_fill
              THEN [w3 EXCEPT !.update_log = TRUE,
                              !.begin_tail = IF @ = 0 THEN w3.upd_curr ELSE @]
              ELSE w3
    IN /\ copied <= bytes
       /\ OneFault(copied < bytes, pfault # 0, afail)
       /\ hole_fill \/ ~afail
       /\ IF pr.ret # 0
          THEN WriteOut(pr.ret, [w1 EXCEPT !.fail = "protect"], fr, m2,
                        pr.csum, lg0)
          ELSE IF hole_fill /\ (afail \/ w.upd_tail > MaxLog)
          THEN WriteOut(ENOSPC, [w1 EXCEPT !.fail = "append"], fr, m2,
                        pr.csum, lg0)
          ELSE /\ mem' = m2
               /\ csum' = pr.csum
               /\ free' = fr
               /\ log' = IF hole_fill
                         THEN AppendEntry(lg0, w.upd_tail, new_entry)
                         ELSE InplaceUpdateWriteEntry(lg0, entry, w.epoch_id,
                                                      file_size)
               /\ w' = w4
               /\ pc' = IF w4.status < 0 \/ w4.num_blocks = 0 THEN "commit"
                        ELSE "loop"
               /\ res' = res

InplaceRun ==
    /\ pc = "loop"
    /\ w.op = "inplace"
    /\ LET start_blk == StartBlk(w.pos)
           chk == CheckExistingEntry(tree, log, w.num_blocks, start_blk,
                                     TRUE, w.epoch_id)
       IN /\ ~chk.bug
          /\ IF chk.entry # 0 /\ chk.inplace
             THEN \E copied \in 0 .. BlockSize * chk.ent_blks,
                     pfault \in 0 .. (IF cfg.csum THEN chk.ent_blks ELSE 0) :
                     InplaceRunWith(GetNvmm(log, chk.entry, start_blk),
                                    chk.ent_blks, FALSE, chk.entry, copied,
                                    pfault, FALSE)
             ELSE \/ \* the allocator fails (dax.c:883-888)
                     /\ AllocFails(chk.ent_blks)
                     /\ WriteOut(ENOSPC,
                                 [AllocFailed(w) EXCEPT !.hole_fill = FALSE],
                                 free, mem, csum, log)
                  \/ \E run \in AllocRuns(free, chk.ent_blks) :
                     \E copied \in 0 .. BlockSize * run[2],
                        pfault \in 0 .. (IF cfg.csum THEN run[2] ELSE 0),
                        afail \in BOOLEAN :
                        InplaceRunWith(run[1], run[2], TRUE, chk.entry,
                                       copied, pfault, afail)
    /\ UNCHANGED <<env, log_tail, tree, isize, pre, ncalls>>

\* dax.c:976-1013 when the loop is left: with update_log the tail is set and
\* the reassignment pass is next, without it the call returns
InplaceCommit ==
    /\ pc = "commit"
    /\ w.op = "inplace"
    /\ IF w.update_log
       THEN /\ log_tail' = w.upd_tail
            /\ w' = AddBlocks(w)
            /\ pc' = "reassign"
            /\ UNCHANGED <<mem, csum, free, log, isize, res>>
       ELSE /\ WriteOut(w.written, AddBlocks(w), free, mem, csum, log)
            /\ isize' = SizeAfter(w, isize)
            /\ log_tail' = log_tail
    /\ UNCHANGED <<env, tree, pre, ncalls, nfaults>>

InplaceFinish == WriteFinish("inplace")

(* ------------------- O_APPEND and empty write calls -------------------- *)
\* dax.c:567-570, 832-835 with O_APPEND set: pos = i_size_read(inode) in
\* place of *ppos; the file was opened at position 0
WriteAppend(len) ==
    /\ pc = "idle"
    /\ InodeLockFree
    /\ cfg.inplace \/ i_mmap = {}
    /\ isize + len <= FileMax
    /\ ncalls < budget.calls
    /\ ncalls' = ncalls + 1
    /\ LET op == IF cfg.inplace THEN "inplace" ELSE "cow"
       IN /\ pre' = Snapshot(op)
          /\ w' = AcquireWrite([StartLocals(op, isize, len) EXCEPT
                                   !.ppos = 0, !.append = TRUE])
    /\ pc' = "loop"
    /\ res' = NoRes
    /\ UNCHANGED <<env, mem, csum, free, log, log_tail, tree, isize, nfaults>>

\* dax.c:547-548, 819-820: if (len == 0) return 0, before anything is
\* acquired or read
WriteEmpty(pos) ==
    /\ pc = "idle"
    /\ ncalls < budget.calls
    /\ ncalls' = ncalls + 1
    /\ LET op == IF cfg.inplace THEN "inplace" ELSE "cow"
       IN /\ pre' = Snapshot(op)
          /\ w' = [StartLocals(op, pos, 0) EXCEPT !.num_blocks = 0,
                                                  !.total_blocks = 0,
                                                  !.time_set = FALSE]
          /\ res' = [op |-> op, ret |-> 0, ppos |-> pos]
    /\ pc' = "done"
    /\ UNCHANGED <<env, mem, csum, free, log, log_tail, tree, isize, nfaults>>

(* ------------------------------ snapshots ------------------------------ *)
\* nova_seq_create_snapshot (sysfs.c:282-291): nova_create_snapshot pins the
\* current epoch and starts the next one
CreateSnapshot ==
    /\ pc = "idle"
    /\ epoch < MaxEpoch
    /\ snaps' = snaps \cup {epoch}
    /\ epoch' = epoch + 1
    /\ UNCHANGED <<cfg, budget, mem, csum, free, log, log_tail, tree, isize,
                   i_mmap, vma_tree, pc, w, pre, res, ncalls, nfaults,
                   registry, threads>>

(* ---------------------------- nova_dax_file_read ----------------------- *)
\* nova_dax_file_read (dax.c:170-183)
Read(pos, len) ==
    /\ pc = "idle"
    /\ LET r == DoRead(pos, len)
       IN res' = [op |-> "read", ret |-> r.ret, data |-> r.data,
                  ppos |-> r.ppos]
    /\ w' = [op |-> "read", ppos |-> pos, len |-> len]
    /\ pre' = Snapshot("read")
    /\ pc' = "done"
    /\ UNCHANGED <<env, mem, csum, free, log, log_tail, tree, isize, ncalls,
                   nfaults>>

(* ------------------- a reader beside the write call -------------------- *)
\* a reader that does not wait for the writer
CanLockSharedAlways == TRUE

\* inode_lock_shared(inode) (dax.c:178) returns when no writer holds the lock
CanLockShared == ~WriteLocked /\ ~BlocksLocked

\* nova_dax_file_read up to dax.c:178: the reader has the lock shared
ReadLockShared(pos, len) ==
    /\ rd.pc = "idle"
    /\ CanLockShared
    /\ rd' = [pc |-> "locked", pos |-> pos, len |-> len,
              lock_shared |-> 1, unlock_shared |-> 0]
    /\ UNCHANGED <<cfg, budget, mem, csum, free, log, log_tail, tree, isize,
                   epoch, snaps, i_mmap, vma_tree, pc, w, pre, res, ncalls,
                   nfaults, registry, gb, vt>>

\* dax.c:179-180: do_dax_mapping_read under the lock, then inode_unlock_shared
ReadUnlockShared ==
    /\ rd.pc = "locked"
    /\ LET r == DoRead(rd.pos, rd.len)
       IN rd' = [pc |-> "done", pos |-> rd.pos, len |-> rd.len,
                 ret |-> r.ret, data |-> r.data,
                 lock_shared |-> rd.lock_shared,
                 unlock_shared |-> rd.unlock_shared + 1]
    /\ UNCHANGED <<cfg, budget, mem, csum, free, log, log_tail, tree, isize,
                   epoch, snaps, i_mmap, vma_tree, pc, w, pre, res, ncalls,
                   nfaults, registry, gb, vt>>

\* dax.c:182: the reader has its result
ReadReturns ==
    /\ rd.pc = "done"
    /\ rd' = [pc |-> "idle"]
    /\ UNCHANGED <<cfg, budget, mem, csum, free, log, log_tail, tree, isize,
                   epoch, snaps, i_mmap, vma_tree, pc, w, pre, res, ncalls,
                   nfaults, registry, gb, vt>>

(* ---------------------------- nova_dax_get_blocks ---------------------- *)
\* the blocks the allocator hands out zeroed (zero = 1)
ZeroBlocks(m, blocknr, num) ==
    [a \in Addrs |->
        IF a >= BlockAddr(blocknr) /\ a < BlockAddr(blocknr + num) THEN Zero
        ELSE m[a]]

\* page ranges inside the file's address space: <<first page, pages>>
PageRanges == {v \in Pages \X (1 .. NumPages) : v[1] + v[2] <= NumPages}

\* a lookup that goes on to allocate whatever the caller asked for
WantAllocateAlways(create) == TRUE

\* dax.c:1081-1084: without `create` an unmapped block is reported as a hole
WantAllocate(create) == create

\* *new when the call has allocated `allocated` blocks: nova_iomap_begin
\* passes new = false (dax.c:1554) and nova_dax_get_blocks never stores to it
\* (dax.c:1140)
IsNew(allocated) == FALSE

\* nova_dax_get_blocks (dax.c:1031-1159)
GetBlocks(iblock, max_blocks, create) ==
    /\ pc = "idle"
    /\ ncalls < budget.calls
    /\ ncalls' = ncalls + 1
    /\ pre' = Snapshot("get_blocks")
    /\ w' = [op |-> "get_blocks", call |-> ncalls + 1, iblock |-> iblock,
             max_blocks |-> max_blocks, create |-> create]
    /\ pc' = "done"
    /\ LET chk == CheckExistingEntry(tree, log, max_blocks, iblock, TRUE,
                                     epoch)
           keep == UNCHANGED <<mem, free, log, log_tail, tree>>
       IN /\ ~chk.bug
          /\ IF chk.entry # 0 /\ (~create \/ chk.inplace)
             THEN /\ res' = [op |-> "get_blocks", ret |-> chk.ent_blks,
                             bno |-> GetNvmm(log, chk.entry, iblock),
                             new |-> IsNew(0)]
                  /\ keep
                  /\ nfaults' = nfaults
             ELSE IF ~WantAllocate(create)
             THEN /\ res' = [op |-> "get_blocks", ret |-> 0, bno |-> 0, new |-> IsNew(0)]
                  /\ keep
                  /\ nfaults' = nfaults
             ELSE \/ /\ AllocFails(chk.ent_blks)
                     /\ res' = [op |-> "get_blocks", ret |-> ENOSPC,
                                bno |-> 0, new |-> IsNew(0)]
                     /\ keep
                  \/ \E run \in AllocRuns(free, chk.ent_blks),
                        afail \in BOOLEAN :
                        LET blocknr == run[1]
                            allocated == run[2]
                            fr == free \ (blocknr .. blocknr + allocated - 1)
                            m1 == ZeroBlocks(mem, blocknr, allocated)
                            entry == InitFileWriteEntry(epoch, iblock,
                                         allocated, blocknr, isize)
                            lg1 == AppendEntry(log, log_tail, entry)
                            st == ReassignFileTree(lg1, tree, fr, snaps,
                                                   log_tail, log_tail + 1)
                        IN /\ OneFault(FALSE, FALSE, afail)
                           /\ mem' = m1
                           /\ IF afail \/ log_tail > MaxLog
                              THEN /\ res' = [op |-> "get_blocks",
                                              ret |-> ENOSPC, bno |-> 0, new |-> IsNew(0)]
                                   /\ free' = CleanupIncompleteWrite(fr, log,
                                                  blocknr, allocated, 0,
                                                  log_tail)
                                   /\ UNCHANGED <<log, log_tail, tree>>
                              ELSE /\ res' = [op |-> "get_blocks",
                                              ret |-> allocated,
                                              bno |-> blocknr,
                                              new |-> IsNew(allocated)]
                                   /\ log' = st.log
                                   /\ log_tail' = log_tail + 1
                                   /\ tree' = st.tree
                                   /\ free' = st.free
    /\ UNCHANGED <<env, csum, isize>>

(* ------------------ nova_dax_get_blocks, thread by thread -------------- *)
\* dax.c:1086-1087: inode_lock(inode) returns once no writer and no other
\* caller holds the lock
GbCanLock(t) == InodeLockFree

\* dax.c:1152-1153: if (taking_lock && locked) inode_unlock(inode)
GbUnlock(c) == IF c.locked THEN [c EXCEPT !.unlocks = @ + 1] ELSE c

\* the result of a call in thread t: dax.c:1147-1158
GbResult(t, ret, bno, allocated) ==
    [gb EXCEPT ![t] = GbUnlock([@ EXCEPT !.pc = "done", !.ret = ret,
                                         !.bno = bno,
                                         !.allocated = allocated])]

\* dax.c:1055-1084: a call with taking_lock set: the epoch is read and the
\* index is looked up without the lock and without the search for the next
\* entry (check_next = 0)
GbCheck(t, iblock, max_blocks, create) ==
    /\ gb[t].pc = "idle"
    /\ ncalls < budget.calls
    /\ ncalls' = ncalls + 1
    /\ LET chk == CheckExistingEntry(tree, log, max_blocks, iblock, FALSE,
                                     epoch)
           call == [pc |-> "lock", iblock |-> iblock,
                    max_blocks |-> max_blocks, create |-> create,
                    epoch_id |-> epoch, hole |-> chk.entry = 0,
                    locked |-> FALSE, num_blocks |-> 0, ret |-> 0,
                    bno |-> 0, allocated |-> 0, locks |-> 0, unlocks |-> 0]
       IN IF chk.entry # 0 /\ (~create \/ chk.inplace)
          THEN gb' = [gb EXCEPT ![t] =
                         GbUnlock([call EXCEPT !.pc = "done",
                                               !.ret = chk.ent_blks,
                                               !.bno = GetNvmm(log, chk.entry,
                                                               iblock)])]
          ELSE IF ~WantAllocate(create)
          THEN gb' = [gb EXCEPT ![t] = GbUnlock([call EXCEPT !.pc = "done"])]
          ELSE gb' = [gb EXCEPT ![t] = call]
    /\ UNCHANGED <<cfg, budget, mem, csum, free, log, log_tail, tree, isize,
                   epoch, snaps, i_mmap, vma_tree, pc, w, pre, res, nfaults,
                   registry, rd, vt>>

\* dax.c:1086-1091 and 1066-1079: the lock is taken and the index is looked
\* up again, now with the search for the next entry; a mapping another caller
\* has made meanwhile is returned and the lock released
GbLock(t) ==
    /\ gb[t].pc = "lock"
    /\ GbCanLock(t)
    /\ LET c == gb[t]
           chk == CheckExistingEntry(tree, log, c.max_blocks, c.iblock, TRUE,
                                     c.epoch_id)
       IN /\ ~chk.bug
          /\ IF chk.entry # 0 /\ chk.inplace
             THEN gb' = [gb EXCEPT ![t] =
                            GbUnlock([c EXCEPT !.pc = "done", !.locked = TRUE,
                                               !.locks = @ + 1,
                                               !.ret = chk.ent_blks,
                                               !.bno = GetNvmm(log, chk.entry,
                                                               c.iblock)])]
             ELSE gb' = [gb EXCEPT ![t] =
                            [c EXCEPT !.pc = "locked", !.locked = TRUE,
                                      !.locks = @ + 1,
                                      !.num_blocks = chk.ent_blks]]
    /\ UNCHANGED <<cfg, budget, mem, csum, free, log, log_tail, tree, isize,
                   epoch, snaps, i_mmap, vma_tree, pc, w, pre, res, ncalls,
                   nfaults, registry, rd, vt>>

\* dax.c:1093-1158: under the lock the blocks are allocated zeroed, the entry
\* is appended and committed and the index updated; the lock is released
GbAllocate(t) ==
    /\ gb[t].pc = "locked"
    /\ LET c == gb[t]
       IN \/ /\ AllocFails(c.num_blocks)
             /\ gb' = GbResult(t, ENOSPC, 0, 0)
             /\ UNCHANGED <<mem, free, log, log_tail, tree>>
          \/ \E run \in AllocRuns(free, c.num_blocks), afail \in BOOLEAN :
                LET blocknr == run[1]
                    allocated == run[2]
                    fr == free \ (blocknr .. blocknr + allocated - 1)
                    entry == InitFileWriteEntry(c.epoch_id, c.iblock,
                                                allocated, blocknr, isize)
                    lg1 == AppendEntry(log, log_tail, entry)
                    st == ReassignFileTree(lg1, tree, fr, snaps, log_tail,
                                           log_tail + 1)
                IN /\ OneFault(FALSE, FALSE, afail)
                   /\ mem' = ZeroBlocks(mem, blocknr, allocated)
                   /\ IF afail \/ log_tail > MaxLog
                      THEN /\ gb' = GbResult(t, ENOSPC, 0, allocated)
                           /\ free' = CleanupIncompleteWrite(fr, log, blocknr,
                                          allocated, 0, log_tail)
                           /\ UNCHANGED <<log, log_tail, tree>>
                      ELSE /\ gb' = GbResult(t, allocated, blocknr, allocated)
                           /\ log' = st.log
                           /\ log_tail' = log_tail + 1
                           /\ tree' = st.tree
                           /\ free' = st.free
    /\ UNCHANGED <<cfg, budget, csum, isize, epoch, snaps, i_mmap, vma_tree,
                   pc, w, pre, res, ncalls, registry, rd, vt>>

\* dax.c:1157: the call returns
GbReturns(t) ==
    /\ gb[t].pc = "done"
    /\ gb' = [gb EXCEPT ![t] = [pc |-> "idle"]]
    /\ UNCHANGED <<cfg, budget, mem, csum, free, log, log_tail, tree, isize,
                   epoch, snaps, i_mmap, vma_tree, pc, w, pre, res, ncalls,
                   nfaults, registry, rd, vt>>

(* ------------------------- shared-writable mappings -------------------- *)
\* the mappings a process may hold: <<first page, pages>>
Vmas == PageRanges

\* nova_dax_file_mmap (dax.c:1915-1934) of a shared-writable mapping, with
\* nova_insert_write_vma (dax.c:1710-1792): with data checksums the marker
\* is appended and committed and the mapping enters the vma tree
Mmap(v) ==
    /\ pc = "idle"
    /\ i_mmap = {}
    /\ ncalls < budget.calls
    /\ ncalls' = ncalls + 1
    /\ i_mmap' = i_mmap \cup {v}
    /\ IF cfg.csum /\ log_tail <= MaxLog
       THEN /\ log' = AppendEntry(log, log_tail, MmapEntry(epoch, v[1], v[2]))
            /\ log_tail' = log_tail + 1
            /\ vma_tree' = vma_tree \cup {v}
            /\ num_vmas' = num_vmas + 1
            /\ mmap_sih_list' = (num_vmas' = 1 \/ mmap_sih_list)
       ELSE UNCHANGED <<log, log_tail, vma_tree, registry>>
    /\ UNCHANGED <<cfg, budget, mem, csum, free, tree, isize, epoch, snaps,
                   pc, w, pre, res, nfaults, threads>>

\* nova_reset_vma_csum_parity: the checksums of the blocks behind the
\* mapping's pages are computed again from what the blocks hold
ResetVmaCsum(cs, tr, lg, m, v) ==
    [b \in Blocks |->
        IF \E pg \in v[1] .. v[1] + v[2] - 1 :
              tr[pg] # 0 /\ GetNvmm(lg, tr[pg], pg) = b
        THEN CsumOf(BlockImage(m, b))
        ELSE cs[b]]

\* nova_vma_close with nova_remove_write_vma (dax.c:1794-1856)
Munmap(v) ==
    /\ pc = "idle"
    /\ v \in i_mmap
    /\ i_mmap' = i_mmap \ {v}
    /\ IF cfg.csum /\ v \in vma_tree
       THEN /\ csum' = ResetVmaCsum(csum, tree, log, mem, v)
            /\ vma_tree' = vma_tree \ {v}
            /\ num_vmas' = num_vmas - 1
            /\ mmap_sih_list' = (num_vmas' # 0 /\ mmap_sih_list)
       ELSE UNCHANGED <<csum, vma_tree, registry>>
    /\ UNCHANGED <<cfg, budget, mem, free, log, log_tail, tree, isize, epoch,
                   snaps, pc, w, pre, res, ncalls, nfaults, threads>>

(* ------------- nova_insert_write_vma / nova_remove_write_vma ----------- *)
\* the mappings the threads open and close: <<first page, pages, owner>>;
\* a mapping belongs to the address space of one thread
VmaItems == {<<r[1], r[2], t>> : r \in PageRanges, t \in VmaThreads}

\* dax.c:1888, 1901, 1924: the callers track mappings with one of the
\* module parameters set
TrackVmas == cfg.mmap_cow \/ cfg.csum

\* an insertion that takes every mapping for a new one
AlreadyTrackedNever(mp, v) == FALSE

\* the search of the vma tree (dax.c:1757-1772, 1816-1830)
AlreadyTracked(mp, v) == v \in mp

\* the result of a call in thread t
VmaResult(t, op, v, sw, ret, next) ==
    [vt EXCEPT ![t] = [pc |-> next, op |-> op, vma |-> v, sw |-> sw,
                       ret |-> ret]]

\* nova_insert_write_vma (dax.c:1710-1782) for mapping v of thread t, from
\* the entry to inode_unlock.  fault: the failure the call meets
VmaInsert(t, v, sw, fault) ==
    /\ vt[t].pc = "idle"
    /\ v[3] = t
    /\ TrackVmas
    /\ IF fault = "none" THEN nfaults' = nfaults
       ELSE nfaults < budget.faults /\ nfaults' = nfaults + 1
    /\ IF ~sw
       THEN /\ fault = "none"
            /\ vt' = VmaResult(t, "insert", v, sw, 0, "done")
            /\ UNCHANGED <<log, log_tail, vma_tree, num_vmas>>
       ELSE IF fault = "nomem"
       THEN /\ vt' = VmaResult(t, "insert", v, sw, ENOMEM, "done")
            /\ UNCHANGED <<log, log_tail, vma_tree, num_vmas>>
       ELSE /\ InodeLockFree
            /\ fault = "append" => cfg.csum
            /\ IF cfg.csum /\ (fault = "append" \/ log_tail > MaxLog)
               THEN /\ vt' = VmaResult(t, "insert", v, sw, ENOSPC, "done")
                    /\ UNCHANGED <<log, log_tail, vma_tree, num_vmas>>
               ELSE /\ IF cfg.csum
                       THEN /\ log' = AppendEntry(log, log_tail,
                                          MmapEntry(epoch, v[1], v[2]))
                            /\ log_tail' = log_tail + 1
                       ELSE UNCHANGED <<log, log_tail>>
                    /\ IF AlreadyTracked(vma_tree, v)
                       THEN /\ vt' = VmaResult(t, "insert", v, sw, 0, "done")
                            /\ UNCHANGED <<vma_tree, num_vmas>>
                       ELSE /\ vma_tree' = vma_tree \cup {v}
                            /\ num_vmas' = num_vmas + 1
                            /\ vt' = VmaResult(t, "insert", v, sw, 0,
                                         IF num_vmas' = 1 THEN "add"
                                         ELSE "done")
    /\ UNCHANGED <<cfg, budget, mem, csum, free, tree, isize, epoch, snaps,
                   i_mmap, pc, w, pre, res, ncalls, mmap_sih_list, rd, gb>>

\* dax.c:1784-1788: the inode is put on the list of inodes with mappings
VmaListAdd(t) ==
    /\ vt[t].pc = "add"
    /\ mmap_sih_list' = TRUE
    /\ vt' = [vt EXCEPT ![t].pc = "done"]
    /\ UNCHANGED <<cfg, budget, mem, csum, free, log, log_tail, tree, isize,
                   epoch, snaps, i_mmap, vma_tree, pc, w, pre, res, ncalls,
                   nfaults, num_vmas, rd, gb>>

\* nova_remove_write_vma (dax.c:1794-1838) for mapping v of thread t, from
\* the entry to inode_unlock
VmaRemove(t, v) ==
    /\ vt[t].pc = "idle"
    /\ v[3] = t
    /\ TrackVmas
    /\ InodeLockFree
    /\ IF AlreadyTracked(vma_tree, v)
       THEN /\ csum' = IF cfg.csum
                       THEN ResetVmaCsum(csum, tree, log, mem, v)
                       ELSE csum
            /\ vma_tree' = vma_tree \ {v}
            /\ num_vmas' = num_vmas - 1
            /\ vt' = VmaResult(t, "remove", v, TRUE, 0,
                               IF num_vmas' = 0 THEN "del" ELSE "done")
       ELSE /\ vt' = VmaResult(t, "remove", v, TRUE, 0, "done")
            /\ UNCHANGED <<csum, vma_tree, num_vmas>>
    /\ UNCHANGED <<cfg, budget, mem, free, log, log_tail, tree, isize, epoch,
                   snaps, i_mmap, pc, w, pre, res, ncalls, nfaults,
                   mmap_sih_list, rd, gb>>

\* dax.c:1848-1852: the inode is taken off the list of inodes with mappings
VmaListDel(t) ==
    /\ vt[t].pc = "del"
    /\ mmap_sih_list' = FALSE
    /\ vt' = [vt EXCEPT ![t].pc = "done"]
    /\ UNCHANGED <<cfg, budget, mem, csum, free, log, log_tail, tree, isize,
                   epoch, snaps, i_mmap, vma_tree, pc, w, pre, res, ncalls,
                   nfaults, num_vmas, rd, gb>>

\* dax.c:1791, 1855: the call returns
VmaReturns(t) ==
    /\ vt[t].pc = "done"
    /\ vt' = [vt EXCEPT ![t] = [pc |-> "idle"]]
    /\ UNCHANGED <<cfg, budget, mem, csum, free, log, log_tail, tree, isize,
                   epoch, snaps, i_mmap, vma_tree, pc, w, pre, res, ncalls,
                   nfaults, num_vmas, mmap_sih_list, rd, gb>>

\* no byte of memory has been damaged or stored through a mapping yet
Untouched == \A a \in Addrs : mem[a] # Corrupted /\ mem[a] # Stored

\* a store through the mapping to a page whose block is mapped in place
MmapStore(pg, off) ==
    /\ pc = "idle"
    /\ Untouched
    /\ \E v \in i_mmap : v[1] <= pg /\ pg < v[1] + v[2]
    /\ tree[pg] # 0
    /\ log[tree[pg]].epoch_id = epoch
    /\ mem' = [mem EXCEPT ![BlockAddr(GetNvmm(log, tree[pg], pg)) + off]
                            = Stored]
    /\ UNCHANGED <<env, csum, free, log, log_tail, tree, isize, pc, w, pre,
                   res, ncalls, nfaults>>

\* a media error damages a byte of a block the file holds
CorruptByte(pg, off) ==
    /\ pc = "idle"
    /\ Untouched
    /\ tree[pg] # 0
    /\ mem' = [mem EXCEPT ![BlockAddr(GetNvmm(log, tree[pg], pg)) + off]
                            = Corrupted]
    /\ UNCHANGED <<env, csum, free, log, log_tail, tree, isize, pc, w, pre,
                   res, ncalls, nfaults>>

\* the caller has the result; the next call may start
CallReturns ==
    /\ pc = "done"
    /\ pc' = "idle"
    /\ w' = NoCall
    /\ pre' = NoPre
    /\ res' = NoRes
    /\ UNCHANGED <<env, mem, csum, free, log, log_tail, tree, isize, ncalls,
                   nfaults>>

WritePositions == {<<p, l>> \in (0 .. FileMax - 1) \X (1 .. FileMax) :
                     p + l <= FileMax}

\* the steps of a write call
WriteSteps ==
    \/ \E pl \in WritePositions : CowStart(pl[1], pl[2])
    \/ CowRun
    \/ CowCommit
    \/ CowFinish
    \/ \E pl \in WritePositions : InplaceStart(pl[1], pl[2])
    \/ InplaceRun
    \/ InplaceCommit
    \/ InplaceFinish

Next ==
    \/ WriteSteps
    \/ CreateSnapshot
    \/ CallReturns

Spec == Init /\ [][Next]_vars

\* in-place write calls with checksums on, of which more than one may fail
InitFaults ==
    /\ cfg \in [inplace : {TRUE}, csum : {TRUE}, mmap_cow : {FALSE}]
    /\ budget = [calls |-> MaxCalls, faults |-> RepeatFaults]
    /\ EmptyFile

NextFaults ==
    \/ \E pl \in WritePositions : InplaceStart(pl[1], pl[2])
    \/ InplaceRun
    \/ InplaceCommit
    \/ InplaceFinish
    \/ CallReturns

SpecFaults == InitFaults /\ [][NextFaults]_vars

\* write calls of every kind: at a position, appending, and empty
NextWrite ==
    \/ Next
    \/ \E len \in 1 .. FileMax : WriteAppend(len)
    \/ \E pos \in 0 .. FileMax - 1 : WriteEmpty(pos)

SpecWrite == Init /\ [][NextWrite]_vars

\* write calls and block-mapping calls
InitBlocks ==
    /\ cfg \in [inplace : BOOLEAN, csum : BOOLEAN, mmap_cow : {FALSE}]
    /\ budget = [calls |-> BlocksCalls, faults |-> MaxFaults]
    /\ EmptyFile

NextBlocks ==
    \/ WriteSteps
    \/ \E r \in PageRanges, create \in BOOLEAN : GetBlocks(r[1], r[2], create)
    \/ CreateSnapshot
    \/ CallReturns

SpecBlocks == InitBlocks /\ [][NextBlocks]_vars

\* data checksums on; reads, mappings, stores through them and media errors
InitMmap ==
    /\ cfg \in [inplace : BOOLEAN, csum : {TRUE}, mmap_cow : {FALSE}]
    /\ budget = [calls |-> MmapCalls, faults |-> 0]
    /\ EmptyFile

NextMmap ==
    \/ WriteSteps
    \/ \E pl \in WritePositions : Read(pl[1], pl[2])
    \/ \E v \in Vmas : Mmap(v)
    \/ \E v \in Vmas : Munmap(v)
    \/ \E pg \in Pages, off \in 0 .. BlockSize - 1 : MmapStore(pg, off)
    \/ \E pg \in Pages, off \in 0 .. BlockSize - 1 : CorruptByte(pg, off)
    \/ CallReturns

SpecMmap == InitMmap /\ [][NextMmap]_vars

\* write calls, block-mapping calls and reads
NextLookup ==
    \/ NextBlocks
    \/ \E pl \in WritePositions : Read(pl[1], pl[2])

SpecLookup == InitBlocks /\ [][NextLookup]_vars

\* reads of any length from any position, inside the file and beyond it
ReadInputs == (0 .. FileMax) \X (0 .. FileMax + 1)

NextRead ==
    \/ NextBlocks
    \/ \E pl \in ReadInputs : Read(pl[1], pl[2])

SpecRead == InitBlocks /\ [][NextRead]_vars

\* write calls with a reader thread beside them
ReadPositions == {<<0, FileMax>>, <<1, BlockSize>>}

InitReader ==
    /\ cfg \in [inplace : BOOLEAN, csum : BOOLEAN, mmap_cow : {FALSE}]
    /\ budget = [calls |-> ReaderCalls, faults |-> MaxFaults]
    /\ EmptyFile

NextReader ==
    \/ WriteSteps
    \/ \E pl \in ReadPositions : ReadLockShared(pl[1], pl[2])
    \/ ReadUnlockShared
    \/ ReadReturns
    \/ CallReturns

SpecReader == InitReader /\ [][NextReader]_vars

\* the three kinds of caller side by side: a write call, a reader and a
\* caller of nova_dax_get_blocks with taking_lock set; a mapping of the file
\* makes the copy-on-write writer reject the call
InitLocks ==
    /\ cfg \in [inplace : BOOLEAN, csum : BOOLEAN, mmap_cow : {FALSE}]
    /\ budget = [calls |-> LockCalls, faults |-> MaxFaults]
    /\ EmptyFile

NextLocks ==
    \/ WriteSteps
    \/ \E pl \in ReadPositions : ReadLockShared(pl[1], pl[2])
    \/ ReadUnlockShared
    \/ ReadReturns
    \/ \E r \in PageRanges, create \in BOOLEAN : GbCheck(1, r[1], r[2], create)
    \/ GbLock(1)
    \/ GbAllocate(1)
    \/ GbReturns(1)
    \/ \E v \in Vmas : Mmap(v)
    \/ CallReturns

SpecLocks == InitLocks /\ [][NextLocks]_vars

\* threads that open and close mappings of the file
\* nova_reassign_file_tree applied to a log: entries of both types, each of
\* one page with a block of its own, appended and not yet in the index; the
\* pass starts at begin_tail (0: nothing to do) and a tail behind the slot
\* after the last written one is a log whose page chain ends early
ReassignLogs ==
    UNION {[1 .. n -> {FILE_WRITE, MMAP_WRITE} \X Pages] : n \in 0 .. MaxLog}

ReassignEntry(e, type, pg) ==
    IF type = FILE_WRITE THEN InitFileWriteEntry(0, pg, 1, e, BlockSize)
    ELSE MmapEntry(0, pg, 1)

InitReassign ==
    /\ cfg \in [inplace : {FALSE}, csum : {FALSE}, mmap_cow : {FALSE}]
    /\ budget = [calls |-> 0, faults |-> 0]
    /\ mem = [a \in Addrs |-> Stale]
    /\ csum = [b \in Blocks |-> NoCsum]
    /\ \E l \in ReassignLogs :
          /\ log = [e \in 1 .. Len(l) |-> ReassignEntry(e, l[e][1], l[e][2])]
          /\ free = Blocks \ {e \in 1 .. Len(l) : l[e][1] = FILE_WRITE}
    /\ log_tail \in 1 .. MaxLog + 2
    /\ tree = [pg \in Pages |-> 0]
    /\ isize = 0
    /\ epoch = 0
    /\ snaps = {}
    /\ i_mmap = {}
    /\ vma_tree = {}
    /\ pc = "reassign"
    /\ \E b \in 0 .. log_tail : w = [op |-> "pass", begin_tail |-> b]
    /\ pre = NoPre
    /\ res = NoRes
    /\ ncalls = 0
    /\ nfaults = 0
    /\ num_vmas = 0
    /\ mmap_sih_list = FALSE
    /\ rd = [pc |-> "idle"]
    /\ gb = [t \in GbThreads |-> [pc |-> "idle"]]
    /\ vt = [t \in VmaThreads |-> [pc |-> "idle"]]

\* one call of nova_reassign_file_tree(sb, sih, begin_tail)
ReassignPass ==
    /\ pc = "reassign"
    /\ w.op = "pass"
    /\ LET st == ReassignFileTree(log, tree, free, snaps, w.begin_tail,
                                  log_tail)
       IN /\ log' = st.log
          /\ tree' = st.tree
          /\ free' = st.free
          /\ res' = [ret |-> st.ret]
    /\ pc' = "done"
    /\ UNCHANGED <<env, mem, csum, log_tail, isize, w, pre, ncalls, nfaults>>

NextReassign == ReassignPass

SpecReassign == InitReassign /\ [][NextReassign]_vars

\* concurrent callers of nova_dax_get_blocks with taking_lock set, and
\* snapshots
InitGb ==
    /\ cfg \in [inplace : {FALSE}, csum : {FALSE}, mmap_cow : {FALSE}]
    /\ budget = [calls |-> GbCalls, faults |-> MaxFaults]
    /\ EmptyFile

NextGb ==
    \/ \E t \in GbThreads, r \in PageRanges, create \in BOOLEAN :
          GbCheck(t, r[1], r[2], create)
    \/ \E t \in GbThreads : GbLock(t)
    \/ \E t \in GbThreads : GbAllocate(t)
    \/ \E t \in GbThreads : GbReturns(t)
    \/ CreateSnapshot

SpecGb == InitGb /\ [][NextGb]_vars

InitVma ==
    /\ cfg \in [inplace : {FALSE}, csum : BOOLEAN, mmap_cow : BOOLEAN]
    /\ budget = [calls |-> 0, faults |-> MaxFaults]
    /\ EmptyFile

NextVma ==
    \/ \E t \in VmaThreads, v \in VmaItems, sw \in BOOLEAN,
          fault \in {"none", "nomem", "append"} : VmaInsert(t, v, sw, fault)
    \/ \E t \in VmaThreads : VmaListAdd(t)
    \/ \E t \in VmaThreads, v \in VmaItems : VmaRemove(t, v)
    \/ \E t \in VmaThreads : VmaListDel(t)
    \/ \E t \in VmaThreads : VmaReturns(t)

SpecVma == InitVma /\ [][NextVma]_vars

(* -------------- a write call racing with the start of a mapping -------- *)
\* nova_cow_file_write up to the test of mapping_mapped (dax.c:547-555); the
\* test is made before inode_lock is taken
CowCheckMapped(pos, len) ==
    /\ pc = "idle"
    /\ ~cfg.inplace
    /\ ncalls < budget.calls
    /\ ncalls' = ncalls + 1
    /\ pre' = Snapshot("cow")
    /\ IF i_mmap # {}
       THEN /\ res' = [op |-> "cow", ret |-> EACCES, ppos |-> pos]
            /\ w' = [StartLocals("cow", pos, len) EXCEPT !.time_set = FALSE]
            /\ pc' = "done"
       ELSE /\ w' = [op |-> "cow", call |-> ncalls + 1, ppos |-> pos,
                     len |-> len]
            /\ pc' = "checked"
            /\ res' = NoRes
    /\ UNCHANGED <<env, mem, csum, free, log, log_tail, tree, isize, nfaults>>

\* dax.c:559-594: inode_lock is taken and the locals are set, update.tail
\* from the tail the inode has now
CowLock ==
    /\ pc = "checked"
    /\ w.op = "cow"
    /\ InodeLockFree
    /\ w' = [StartLocals("cow", w.ppos, w.len) EXCEPT !.call = w.call]
    /\ pre' = Snapshot("cow")
    /\ pc' = "loop"
    /\ UNCHANGED <<env, mem, csum, free, log, log_tail, tree, isize, res,
                   ncalls, nfaults>>

\* mmap of the file by another thread.  nova_dax_file_mmap (dax.c:1915-1934)
\* takes no lock itself; nova_insert_write_vma, called with data checksums,
\* takes inode_lock (dax.c:1747), which a write call holds from dax.c:561 on
MmapRace(v) ==
    /\ i_mmap = {}
    /\ pc \in {"idle", "checked"} \/ ~cfg.csum
    /\ i_mmap' = i_mmap \cup {v}
    /\ IF cfg.csum /\ log_tail <= MaxLog
       THEN /\ log' = AppendEntry(log, log_tail, MmapEntry(epoch, v[1], v[2]))
            /\ log_tail' = log_tail + 1
            /\ vma_tree' = vma_tree \cup {v}
            /\ num_vmas' = num_vmas + 1
            /\ mmap_sih_list' = (num_vmas' = 1 \/ mmap_sih_list)
       ELSE UNCHANGED <<log, log_tail, vma_tree, registry>>
    /\ UNCHANGED <<cfg, budget, mem, csum, free, tree, isize, epoch, snaps,
                   pc, w, pre, res, ncalls, nfaults, threads>>

InitRace ==
    /\ cfg \in [inplace : {FALSE}, csum : BOOLEAN, mmap_cow : {FALSE}]
    /\ budget = [calls |-> MmapCalls, faults |-> MaxFaults]
    /\ EmptyFile

NextRace ==
    \/ \E pl \in WritePositions : CowCheckMapped(pl[1], pl[2])
    \/ CowLock
    \/ CowRun
    \/ CowCommit
    \/ CowFinish
    \/ \E v \in Vmas : MmapRace(v)
    \/ CallReturns

SpecRace == InitRace /\ [][NextRace]_vars

(* ======================= properties of the write path =================== *)
\* no call is running
Quiescent == pc \in {"idle", "done"}

\* a write call has returned
WriteDone == pc = "done" /\ res.op \in {"cow", "inplace"}

\* the pages holding a byte of [pos, pos + len)
PagesOf(pos, len) == (pos \div BlockSize) .. ((pos + len - 1) \div BlockSize)

\* the committed write entries that cover a page
Covering(pg) ==
    {e \in 1 .. Min(log_tail - 1, Len(log)) :
        /\ log[e].entry_type = FILE_WRITE
        /\ log[e].pgoff <= pg
        /\ pg < log[e].pgoff + log[e].num_pages}

\* bytes [from, from + n) of the user buffer of a call
UserData(call, from, n) == [i \in 1 .. n |-> UserByte(call, from + i - 1)]

\* C1: after any sequence of write calls and block-mapping calls, every page
\* inside the file size is a hole or is mapped by the index to one committed
\* write entry that covers it, the one at the latest log position among the
\* committed entries covering the page.
C1_Coverage ==
    Quiescent =>
        \A pg \in Pages :
            pg * BlockSize < isize =>
                IF Covering(pg) = {} THEN tree[pg] = 0
                ELSE /\ tree[pg] \in Covering(pg)
                     /\ \A e \in Covering(pg) : e <= tree[pg]

\* C10: a write call that returns n > 0 has stored n bytes that are durable
\* and visible: n is the number of bytes copied, the entries holding them are
\* committed and installed in the index, and a read of the n bytes at the
\* call's offset returns them.
C10_PartialWriteVisible ==
    (WriteDone /\ res.ret > 0) =>
        /\ res.ret = w.written
        /\ \A pg \in PagesOf(w.ppos, res.ret) : tree[pg] \in Covering(pg)
        /\ LET r == DoRead(w.ppos, res.ret)
           IN /\ r.ret = res.ret
              /\ r.data = UserData(w.call, 0, res.ret)

\* a write call has appended entries and has not set the tail yet
Uncommitted ==
    /\ pc \in {"loop", "commit"}
    /\ w.op \in {"cow", "inplace"}
    /\ w.upd_tail > log_tail

\* C2 (as stated): while entries are appended and the tail is not advanced,
\* a read of the file returns the pre-write content for every page and every
\* previously committed mapping is unchanged, whatever the policy.
C2_UncommittedInvisible ==
    Uncommitted =>
        /\ tree = pre.tree
        /\ log_tail = pre.log_tail
        /\ Content = pre.content
        /\ DoRead(0, FileMax) = pre.read

\* C2 (amended): while entries are appended and the tail is not advanced, the
\* index and the committed tail are unchanged under both policies, and under
\* the copy-on-write policy a read of the file returns the pre-write content
\* for every page.
C2_UncommittedInvisibleCow ==
    Uncommitted =>
        /\ tree = pre.tree
        /\ log_tail = pre.log_tail
        /\ w.op = "cow" => /\ Content = pre.content
                           /\ DoRead(0, FileMax) = pre.read

\* a copy-on-write call over a non-empty file has appended two entries with
\* data and not set the tail
C2_Witness ==
    /\ Uncommitted
    /\ w.op = "cow"
    /\ w.upd_tail = log_tail + 2
    /\ w.written > BlockSize
    /\ pre.isize > 0
    /\ pre.tree[0] # 0

\* a write call has not set the tail yet
BeforeTailUpdate ==
    /\ pc \in {"loop", "commit"}
    /\ w.op \in {"cow", "inplace"}

\* C3 (as stated): under either policy, a crash at any point before the
\* call's tail update leaves the file recoverable with exactly its pre-write
\* content at every page.
C3_CrashBeforeCommit == BeforeTailUpdate => RecoveredContent = pre.recovered

\* C3 (amended): under the copy-on-write policy, a crash at any point before
\* the call's tail update leaves the file recoverable with exactly its
\* pre-write content at every page.
C3_CrashBeforeCommitCow ==
    (BeforeTailUpdate /\ w.op = "cow") => RecoveredContent = pre.recovered

\* a copy-on-write call overwriting a mapped page has stored its data and
\* not set the tail
C3_Witness ==
    /\ BeforeTailUpdate
    /\ w.op = "cow"
    /\ pc = "commit"
    /\ w.written = w.len
    /\ pre.tree[StartBlk(w.ppos)] # 0
    /\ \E a \in Addrs : mem[a] # pre.mem[a]

\* C9: when block allocation or the log append fails in a run of a write
\* call, the call returns a negative error, the allocator's free blocks are
\* the ones free before the call, and the committed tail is the one before
\* the call.
C9_CleanupOnFailure ==
    (WriteDone /\ w.fail \in {"alloc", "append"}) =>
        /\ res.ret < 0
        /\ free = pre.free
        /\ Cardinality(free) = Cardinality(pre.free)
        /\ log_tail = pre.log_tail

\* the allocation of the second run of a call failed after the first run
\* took blocks and appended its entry
C9_Witness ==
    /\ WriteDone
    /\ w.fail = "alloc"
    /\ w.step = 1
    /\ w.upd_tail = log_tail + 1
    /\ w.begin_tail # 0

\* a write call has returned the full length
WriteComplete == WriteDone /\ res.ret = w.len

\* C4: a write of data D that returns len, followed by a read of the same
\* offset and length, returns exactly D, under both policies.
C4_RoundTrip ==
    WriteComplete =>
        LET r == DoRead(w.ppos, w.len)
        IN /\ r.ret = w.len
           /\ r.data = UserData(w.call, 0, w.len)

\* C5: after a write that does not start or end on a block boundary, the
\* bytes of its first and last block outside the write window are the bytes
\* the file held there before the write when an entry covered the block and
\* zero when none did, and the bytes inside the window are the written data.
C5_PartialBlockMerge ==
    (WriteComplete
     /\ (BlkOffset(w.ppos) # 0 \/ BlkOffset(w.ppos + w.len) # 0)) =>
        \A o \in 0 .. FileMax - 1 :
            o \div BlockSize \in {StartBlk(w.ppos),
                                  StartBlk(w.ppos + w.len - 1)} =>
                Content[o] =
                    IF o >= w.ppos /\ o < w.ppos + w.len
                    THEN UserByte(w.call, o - w.ppos)
                    ELSE IF pre.tree[o \div BlockSize] # 0
                    THEN pre.content[o]
                    ELSE Zero

\* the blocks of the entry at slot e of the log lg
BlocksOfEntry(lg, e) == lg[e].block .. lg[e].block + lg[e].num_pages - 1

\* C6: an in-place-policy write to a page covered by an entry X of another
\* epoch than the current one never writes into X's blocks: X's blocks keep
\* their content, they are not returned to the allocator while a snapshot of
\* X's epoch exists, and a completed write has mapped the page to a new
\* entry with other blocks.
C6_EpochIsolation ==
    (pc \in {"loop", "commit", "reassign", "done"} /\ w.op = "inplace") =>
        \A pg \in PagesOf(w.ppos, w.len) :
            LET X == pre.tree[pg]
            IN (X # 0 /\ pre.log[X].epoch_id # w.epoch_id) =>
                 /\ \A b \in BlocksOfEntry(pre.log, X) :
                       /\ BlockImage(mem, b) = BlockImage(pre.mem, b)
                       /\ (pre.log[X].epoch_id \in snaps /\ b \notin pre.free)
                             => b \notin free
                 /\ WriteComplete =>
                       /\ tree[pg] >= pre.log_tail
                       /\ GetNvmm(log, tree[pg], pg)
                             \notin BlocksOfEntry(pre.log, X)

\* a read call has returned
ReadDone == pc = "done" /\ res.op = "read"

\* the block behind a page does not carry the checksum of what it holds
BadCsum(pg) ==
    /\ tree[pg] # 0
    /\ LET b == GetNvmm(log, tree[pg], pg)
       IN csum[b] # CsumOf(BlockImage(mem, b))

\* C7: with data checksums, every page a read copies out that is mapped to a
\* block and is not inside a shared-writable mapping has been verified: the
\* read returns no byte of such a page whose block fails its checksum,
\* whatever the page's position in its extent.
C7_ChecksumDetection ==
    (ReadDone /\ cfg.csum /\ res.ret > 0) =>
        \A pg \in PagesOf(w.ppos, res.ret) :
            ~FindPgoffInVma(vma_tree, pg) => ~BadCsum(pg)

\* C8: a page inside a shared-writable mapping is never verified by a read:
\* a read that fails with an I/O error covers a page outside every such
\* mapping whose block fails its checksum.
C8_MappedPageNotVerified ==
    (ReadDone /\ res.ret = EIO) =>
        \E pg \in PagesOf(w.ppos, Min(w.len, pre.isize - w.ppos)) :
            ~FindPgoffInVma(vma_tree, pg) /\ BadCsum(pg)

\* C11: a write call with len > 0 in which no byte was written returns a
\* negative error, never 0 and never a positive count.
C11_NoBytesIsError ==
    (WriteDone /\ w.len > 0 /\ w.written = 0) => res.ret < 0

(* ===================== properties of the commit protocol ================ *)
\* the only step of a copy-on-write call that changes the inode's tail is the
\* one after the loop, from the tail the call started with to the slot after
\* the last of the entries its runs appended
C12_TailStep ==
    (w.op = "cow" /\ log_tail' # log_tail) =>
        /\ pc = "commit"
        /\ log_tail = pre.log_tail
        /\ log_tail' = w.upd_tail
        /\ w.upd_tail = pre.log_tail + w.step

\* between the runs the tail is the one the call started with; once all the
\* runs are complete and the loop is left it is past every appended entry
C12_TailState ==
    w.op = "cow" =>
        /\ pc \in {"loop", "commit"} => log_tail = pre.log_tail
        /\ (pc \in {"reassign", "done"} /\ w.num_blocks = 0 /\ w.status >= 0
            /\ w.step > 0)
              => log_tail = pre.log_tail + w.step

\* C12: a copy-on-write call that completes all its runs updates the inode's
\* committed tail exactly once, after the last run, whatever the number of
\* runs and entries; the tail is never updated between runs.
C12_SingleTailUpdate == [] C12_TailState /\ [][C12_TailStep]_vars

\* a copy-on-write call of two runs has set the tail past its two entries
C12_Witness ==
    /\ w.op = "cow"
    /\ pc = "reassign"
    /\ w.step = 2
    /\ w.written = w.len
    /\ log_tail = pre.log_tail + 2

\* a step of a running write call stores an entry in a slot at or after the
\* tail the call started with
AppendsEntry ==
    \E e \in DOMAIN log' :
        /\ e >= pre.log_tail
        /\ e \notin DOMAIN log \/ log'[e] # log[e]

\* the order of the steps of a write call: data copies and appends come while
\* the tail is still the one the call started with; the tail update changes
\* nothing else; the index changes only after the tail update, with the tail
\* past every appended entry; a call that set the tail returns from the step
\* of the reassignment pass
C13_OrderStep ==
    w.op \in {"cow", "inplace"} =>
        /\ (mem' # mem \/ AppendsEntry) =>
              /\ pc = "loop"
              /\ log_tail = pre.log_tail
              /\ log_tail' = log_tail
        /\ log_tail' # log_tail =>
              /\ pc = "commit"
              /\ pc' = "reassign"
              /\ mem' = mem /\ log' = log /\ tree' = tree
        /\ tree' # tree =>
              /\ pc = "reassign"
              /\ log_tail = w.upd_tail
              /\ log_tail' = log_tail
        /\ (pc' = "done" /\ log_tail # pre.log_tail) => pc = "reassign"

\* when a call that set the tail has returned, the pass over its entries,
\* from begin_tail to the tail, is finished: the index maps their pages to them
C13_PassFinished ==
    (WriteDone /\ res.ret >= 0 /\ log_tail # pre.log_tail
     /\ w.begin_tail # 0) =>
        \A e \in w.begin_tail .. log_tail - 1 :
            \A pg \in log[e].pgoff .. log[e].pgoff + log[e].num_pages - 1 :
                tree[pg] = e

C15_WriteStep ==
    /\ w.op = "cow"
    /\ pc \in {"loop", "commit"}
    /\ mem' # mem \/ log' # log \/ log_tail' # log_tail

\* C15: in no interleaving of a copy-on-write write call with a concurrent
\* mmap of the same file does the write copy data, append or commit while
\* the file has an active mapping.
C15_MutualExclusion == [][C15_WriteStep => i_mmap = {}]_vars

(* ===================== properties of the in-place writer ================ *)
\* a step in which a run of an in-place call has its blocks and writes
InplaceRunStep ==
    /\ w.op = "inplace"
    /\ pc = "loop"
    /\ w'.step = w.step + 1

\* an entry covers the first page of the next run and its epoch is the
\* current epoch
Reusable ==
    LET e == tree[StartBlk(w.pos)]
    IN e # 0 /\ log[e].epoch_id = epoch

\* the bytes a step changes are bytes of the run's blocks
WritesOnlyRunBlocks ==
    \A a \in Addrs :
        mem'[a] # mem[a] =>
            /\ a >= BlockAddr(w'.blocknr)
            /\ a < BlockAddr(w'.blocknr + w'.allocated)

\* a run reuses the extent of the covering entry when that entry is of the
\* current epoch, and takes blocks from the allocator in every other case
C16_RunChoice ==
    /\ InplaceRunStep =>
          /\ WritesOnlyRunBlocks
          /\ IF Reusable
             THEN /\ ~w'.hole_fill
                  /\ w'.blocknr = GetNvmm(log, tree[StartBlk(w.pos)],
                                          StartBlk(w.pos))
                  /\ free \subseteq free'
                  /\ w'.upd_tail = w.upd_tail
             ELSE /\ w'.hole_fill
                  /\ w'.allocated >= 1
                  /\ (w'.blocknr .. w'.blocknr + w'.allocated - 1)
                        \subseteq free
    /\ (w.op = "inplace" /\ pc = "loop" /\ w'.fail = "alloc") => ~Reusable

\* C16: each run of the in-place writer reuses an existing extent, writing
\* into its blocks without allocating, if and only if an entry covers the
\* run's first page and the entry's epoch is the writer's current epoch; in
\* every other case the run allocates fresh blocks.
C16_ReuseIffSameEpoch == [][C16_RunChoice]_vars

\* a run over a page that an entry of an earlier epoch covers has taken
\* blocks from the allocator
C16_Witness ==
    /\ w.op = "inplace"
    /\ pc \in {"loop", "commit"}
    /\ w.step = 1
    /\ w.hole_fill
    /\ epoch = 1
    /\ pre.tree[StartBlk(w.ppos)] # 0
    /\ pre.all_log[pre.tree[StartBlk(w.ppos)]].epoch_id = 0

\* C17: in an in-place-policy write call the committed tail is advanced if
\* and only if at least one run of the call was a hole-fill that appended an
\* entry; a call made only of runs that reuse an extent leaves the tail and
\* the number of log entries unchanged.
C17_TailIffHoleFill ==
    (WriteDone /\ w.op = "inplace" /\ res.ret >= 0) =>
        /\ log_tail # pre.log_tail <=> w.upd_tail # pre.log_tail
        /\ w.upd_tail = pre.log_tail =>
              /\ log_tail = pre.log_tail
              /\ Len(log) = Len(pre.all_log)

\* C18: with checksums or parity on, in every run of the in-place writer that
\* reuses an existing extent, the entry's updating flag is set before the
\* first byte of the extent is overwritten: the log the copy finds has the
\* flag of the run's entry set.
C18_UpdatingBeforeCopy ==
    [][(InplaceRunStep /\ cfg.csum /\ ~w'.hole_fill) =>
          w'.flag_at_copy = 1]_vars

\* with checksums on, a run has overwritten bytes of the extent of an entry
C18_Witness ==
    /\ w.op = "inplace"
    /\ cfg.csum
    /\ pc \in {"loop", "commit"}
    /\ ~w.hole_fill
    /\ w.step >= 1
    /\ w.flag_at_copy = 1
    /\ w.written > 0
    /\ mem # pre.mem

(* ========================= properties of lookups ======================== *)
\* C19: a read of a range inside the file size returns zero bytes for every
\* page no entry covers and, for every covered page, the bytes of the block
\* the index maps the page to, at the same offsets in the page.  (A read
\* that a failed checksum stops returns the bytes before the failing run, or
\* the I/O error.)
C19_ReadContent ==
    (ReadDone /\ w.ppos + w.len <= isize) =>
        /\ \/ res.ret = EIO
           \/ /\ res.ret \in 1 .. w.len
              /\ Len(res.data) = res.ret
              /\ \A i \in 1 .. res.ret :
                    res.data[i] = Content[w.ppos + i - 1]
        /\ (\A pg \in PagesOf(w.ppos, w.len) : ~(cfg.csum /\ BadCsum(pg)))
              => res.ret = w.len

\* a read over a mapped page and a hole, from inside the first page, has
\* returned all its bytes
C19_Witness ==
    /\ ReadDone
    /\ w.ppos % BlockSize # 0
    /\ w.ppos + w.len <= isize
    /\ res.ret = w.len
    /\ \E pg, hole \in PagesOf(w.ppos, w.len) : tree[pg] # 0 /\ tree[hole] = 0

\* a step that is a read call or a block-mapping call without create
LookupStep ==
    /\ pc = "idle"
    /\ \/ w'.op = "read"
       \/ w'.op = "get_blocks" /\ ~w'.create

\* C20: a read call and a block-mapping call without create never allocate or
\* free a block, never append a log entry, never move the committed tail and
\* never change the index; the block-mapping call reports a hole, count 0,
\* when the first logical block is unmapped.
C20_LookupsArePure ==
    [][LookupStep =>
          /\ free' = free
          /\ log' = log
          /\ log_tail' = log_tail
          /\ tree' = tree
          /\ mem' = mem /\ csum' = csum /\ isize' = isize
          /\ (w'.op = "get_blocks" /\ tree[w'.iblock] = 0) =>
                res'.ret = 0 /\ res'.bno = 0]_vars

\* a block-mapping call without create has found a hole in a file with data
C20_Witness ==
    /\ pc = "done"
    /\ w.op = "get_blocks"
    /\ ~w.create
    /\ tree[w.iblock] = 0
    /\ res.ret = 0
    /\ isize > 0
    /\ \E pg \in Pages : tree[pg] # 0

(* ================== properties of concurrent operations ================= *)
\* a step in which the reader resolves its pages and copies them out
C21_ReadStep == rd.pc = "locked" /\ rd'.pc = "done"

\* the pages a read resolves, and the bytes it returns, are those of the
\* index, the log and the blocks as they are when no write call is between
\* its first run and the end of its reassignment pass
C21_ReadsOutsideWrite ==
    C21_ReadStep =>
        /\ pc \in {"idle", "done"}
        /\ rd'.ret >= 0 =>
              /\ Len(rd'.data) = rd'.ret
              /\ \A i \in 1 .. rd'.ret : rd'.data[i] = Content[rd.pos + i - 1]

\* while a read holds the lock no write call is inside its locked section
C21_Excluded == ~(ReadLocked /\ WriteLocked)

\* C21: readers never observe a half-updated mapping: every page a read
\* resolves comes from the index as it was entirely before a concurrent write
\* call or entirely after it; no read executes between a writer's tail
\* update and the end of its reassignment pass.
C21_NoHalfUpdatedMapping == [] C21_Excluded /\ [][C21_ReadsOutsideWrite]_vars

\* a read has returned data of a file while a write call that changed the
\* index has finished and not yet returned
C21_Witness ==
    /\ rd.pc = "done"
    /\ rd.ret = FileMax
    /\ pc = "done"
    /\ res.ret > 0
    /\ tree # pre.tree
    /\ pre.isize > 0

(* ================== properties of the block-mapping call ================ *)
\* a block-mapping call has returned
GetBlocksDone == pc = "done" /\ w.op = "get_blocks"

\* C22: get_or_allocate_blocks reports is_new = true exactly when the call
\* allocated fresh blocks and appended a new entry for the returned range,
\* and is_new = false when it returned an existing mapping or a hole.
C22_IsNew ==
    GetBlocksDone =>
        (res.new <=> (res.ret > 0 /\ log_tail = pre.log_tail + 1
                      /\ res.bno \in pre.free))

(* ================= properties of the integrity checks =================== *)
\* before the call, the block behind a page did not carry the checksum of
\* what it held
PreBadCsum(pg) ==
    /\ pre.tree[pg] # 0
    /\ LET b == GetNvmm(pre.all_log, pre.tree[pg], pg)
       IN pre.csum[b] # CsumOf(BlockImage(pre.mem, b))

\* the pages of which a write call overwrites only a part
PartialPages(pos, len) ==
    {pg \in Pages : \/ pg = StartBlk(pos) /\ BlkOffset(pos) # 0
                    \/ pg = StartBlk(pos + len - 1)
                       /\ BlkOffset(pos + len) # 0}

\* C23: if verifying the checksum of the old data of a partially overwritten
\* head or tail block fails during a write, the write returns an I/O error
\* and nothing of that run is committed: the tail is not advanced, the blocks
\* allocated are freed, and a later read of that block returns no data of
\* the failed write.  No copy-on-write call returns bytes written to a page
\* whose old data fails the verification.
C23_ChecksumFailureAborts ==
    /\ (WriteDone /\ w.fail = "protect" /\ res.ret # EFAULT) =>
          /\ res.ret = EIO
          /\ log_tail = pre.log_tail
          /\ tree = pre.tree
          /\ isize = pre.isize
          /\ free = pre.free
          /\ \A o \in 0 .. FileMax - 1 :
                o \div BlockSize >= StartBlk(w.pos) => Content[o][1] # w.call
          /\ LET r == DoRead(StartBlk(w.pos) * BlockSize, BlockSize)
             IN \A i \in 1 .. Len(r.data) : r.data[i][1] # w.call
    /\ (WriteDone /\ w.op = "cow" /\ cfg.csum) =>
          \A pg \in PartialPages(w.ppos, w.len) :
              (PreBadCsum(pg) /\ ~FindPgoffInVma(vma_tree, pg)) =>
                  ~(res.ret > 0 /\ pg \in PagesOf(w.ppos, res.ret))

(* ================= properties of the allocation loop ==================== *)
\* the slots of the entries a write call appended and committed
CallEntries == pre.log_tail .. log_tail - 1

\* C24: when the allocator returns fewer blocks than requested, a
\* copy-on-write call loops until the whole range is written: a call that
\* meets no failure returns len, it appends exactly one write entry per
\* allocation run, and the page ranges of the entries are pairwise disjoint,
\* in increasing order, and together cover exactly the blocks spanned by
\* [pos, pos + len).
C24_OneEntryPerRun ==
    /\ (WriteDone /\ w.op = "cow" /\ w.fail = "none" /\ ~pre.mapped) =>
          res.ret = w.len
    /\ (WriteDone /\ w.op = "cow" /\ res.ret = w.len) =>
          /\ Cardinality(CallEntries) = w.step
          /\ w.step >= 1
          /\ Len(log) = log_tail - 1
          /\ \A e \in CallEntries : log[e].entry_type = FILE_WRITE
          /\ log[pre.log_tail].pgoff = StartBlk(w.ppos)
          /\ \A e \in CallEntries :
                /\ log[e].num_pages >= 1
                /\ IF e + 1 \in CallEntries
                   THEN log[e + 1].pgoff = log[e].pgoff + log[e].num_pages
                   ELSE log[e].pgoff + log[e].num_pages
                           = StartBlk(w.ppos + w.len - 1) + 1
          /\ \A e, f \in CallEntries :
                e < f => log[e].pgoff + log[e].num_pages <= log[f].pgoff

\* a call over two blocks got one block from the allocator in each of its
\* two runs and has returned its length
C24_Witness ==
    /\ WriteDone
    /\ w.op = "cow"
    /\ res.ret = w.len
    /\ w.total_blocks = 2
    /\ w.step = 2
    /\ log_tail = pre.log_tail + 2
    /\ pre.isize > 0

(* ================== properties of the mapping tracking ================== *)
\* a step that is a call of nova_insert_write_vma for a shared-writable
\* mapping and returns 0, and one that is a call of nova_remove_write_vma
\* for a tracked mapping
InsertStep(t) ==
    /\ vt[t].pc = "idle" /\ vt'[t].pc # "idle"
    /\ vt'[t].op = "insert" /\ vt'[t].sw /\ vt'[t].ret = 0

RemoveStep(t) ==
    /\ vt[t].pc = "idle" /\ vt'[t].pc # "idle"
    /\ vt'[t].op = "remove"

\* the step appends one MMAP_WRITE marker for mapping v and commits it
AppendsMarker(v) ==
    /\ Len(log') = Len(log) + 1
    /\ log_tail' = log_tail + 1
    /\ SubSeq(log', 1, Len(log)) = log
    /\ log'[Len(log')].entry_type = MMAP_WRITE
    /\ log'[Len(log')].pgoff = v[1]
    /\ log'[Len(log')].num_pages = v[2]

AppendsNothing == log' = log /\ log_tail' = log_tail

InsertCall(t) ==
    /\ vt[t].pc = "idle" /\ vt'[t].pc # "idle"
    /\ vt'[t].op = "insert"

\* the set of tracked mappings and the counter are left alone
SameVmas == vma_tree' = vma_tree /\ num_vmas' = num_vmas

\* what one step does to the set of tracked mappings
C29_VmaStep ==
    /\ \A t \in VmaThreads :
          /\ InsertStep(t) =>
                /\ vma_tree' = vma_tree \cup {vt'[t].vma}
                /\ vt'[t].vma \in vma_tree => SameVmas
          /\ (InsertCall(t) /\ ~InsertStep(t)) => SameVmas
          /\ RemoveStep(t) =>
                /\ vma_tree' = vma_tree \ {vt'[t].vma}
                /\ vt'[t].vma \notin vma_tree => SameVmas
    /\ (\A t \in VmaThreads : ~InsertCall(t) /\ ~RemoveStep(t)) => SameVmas

\* C29: the set of active writable mappings holds exactly the shared-writable
\* mappings inserted and not yet removed, each once, and num_vmas is the
\* number of items of the set; inserting a mapping that is not
\* shared-writable or one already present, and removing one not present,
\* leave the set and the counter unchanged.
C29_VmaSetAndCounter ==
    /\ [] (num_vmas = Cardinality(vma_tree))
    /\ [][C29_VmaStep]_vars

\* two mappings are tracked, a removal has returned, and the log holds two
\* markers for the page range of a tracked mapping
C29_Witness ==
    /\ num_vmas = 2
    /\ Cardinality(vma_tree) = 2
    /\ \E t \in VmaThreads :
          /\ vt[t].pc = "done" /\ vt[t].op = "remove"
          /\ vt[t].vma \notin vma_tree
    /\ \E t \in VmaThreads :
          /\ vt[t].pc = "done" /\ vt[t].op = "insert" /\ vt[t].sw
          /\ vt[t].ret = 0
          /\ vt[t].vma \in vma_tree
          /\ cfg.csum
          /\ Cardinality({e \in 1 .. log_tail - 1 :
                /\ log[e].entry_type = MMAP_WRITE
                /\ log[e].pgoff = vt[t].vma[1]
                /\ log[e].num_pages = vt[t].vma[2]}) >= 2


(* ============ properties of the registry of mapped inodes ============== *)
\* no call of nova_insert_write_vma or nova_remove_write_vma is in progress
NoVmaCall == \A t \in VmaThreads : vt[t].pc = "idle"

\* the steps that put the inode on the registry and take it off
ListAddStep == \E t \in VmaThreads : vt[t].pc = "add" /\ vt'[t].pc = "done"

ListDelStep == \E t \in VmaThreads : vt[t].pc = "del" /\ vt'[t].pc = "done"

\* C30: under any interleaving of concurrent insert and remove calls,
\* whenever no call is in progress the inode is on the registry of inodes
\* with active writable mappings if and only if num_vmas > 0; it is never
\* added while on the registry and never removed while off it.
C30_RegistryMatchesCounter ==
    /\ [] (NoVmaCall => (mmap_sih_list <=> num_vmas > 0))
    /\ [][/\ ListAddStep => ~mmap_sih_list
          /\ ListDelStep => mmap_sih_list]_vars


(* ================= properties of the reassignment pass ================= *)
\* the write entries the pass has to process: the FILE_WRITE entries from
\* begin_tail to the slot before the tail
PassEntries ==
    {e \in 1 .. Len(log) : /\ w.begin_tail # 0
                           /\ w.begin_tail <= e /\ e < log_tail
                           /\ log[e].entry_type = FILE_WRITE}

\* the entries among them that cover page pg, and the last one in log order
PassEntriesOf(pg) ==
    {e \in PassEntries : log[e].pgoff <= pg
                         /\ pg < log[e].pgoff + log[e].num_pages}

LastOf(S) == CHOOSE e \in S : \A f \in S : f <= e

\* the walk meets a null next-page pointer before the tail
ChainEndsEarly ==
    /\ w.begin_tail # 0
    /\ w.begin_tail # log_tail
    /\ log_tail > Len(log) + 1

\* C26: the reassignment pass started at begin_log_pos processes exactly the
\* FILE_WRITE entries between begin_log_pos (inclusive) and the committed
\* tail (exclusive), each once and in log order; an entry of another type is
\* skipped without effect; a null next-page pointer before the tail makes the
\* pass stop and return an error.
C26_ReassignPass ==
    [][(pc = "reassign" /\ w.op = "pass" /\ pc' = "done") =>
          /\ Len(log') = Len(log)
          /\ \A pg \in Pages :
                LET S == PassEntriesOf(pg)
                IN /\ tree'[pg] = IF S = {} THEN tree[pg] ELSE LastOf(S)
                   /\ \A e \in S :
                         log'[e].invalid_pages =
                            IF e = LastOf(S) THEN 0 ELSE 1
          /\ \A e \in 1 .. Len(log) :
                e \notin PassEntries => log'[e] = log[e]
          /\ free' = free \cup {log[e].block : e \in
                        {f \in PassEntries :
                            f # LastOf(PassEntriesOf(log[f].pgoff))}}
          /\ res'.ret = IF ChainEndsEarly THEN EINVAL ELSE 0]_vars

\* a pass over a write entry, a marker and a second write entry of the same
\* page that ran into the end of the page chain: the page maps to the second
\* entry, the first has lost its page, and the pass returned the error
C26_Witness ==
    /\ pc = "done" /\ w.op = "pass"
    /\ w.begin_tail = 1
    /\ Len(log) = 3
    /\ log[1].entry_type = FILE_WRITE /\ log[1].invalid_pages = 1
    /\ log[2].entry_type = MMAP_WRITE
    /\ log[3].entry_type = FILE_WRITE
    /\ tree[log[3].pgoff] = 3
    /\ res.ret = EINVAL


\* C27: a mapped result of get_or_allocate_blocks with count c and physical
\* block b for first logical block p has 1 <= c <= max_blocks, and the index
\* maps every logical page p + i (0 <= i < c) to physical block b + i when
\* the result is produced.
C27_MappedRange ==
    (GetBlocksDone /\ res.ret > 0) =>
        /\ res.ret <= w.max_blocks
        /\ \A i \in 0 .. res.ret - 1 :
              LET pg == w.iblock + i
              IN /\ pg \in Pages
                 /\ tree[pg] # 0
                 /\ log[tree[pg]].block + (pg - log[tree[pg]].pgoff)
                       = res.bno + i

\* a lookup of one page at the first page of an extent of two pages has
\* returned one block without allocating
C27_Witness ==
    /\ GetBlocksDone
    /\ res.ret = 1
    /\ w.max_blocks = 1
    /\ log_tail = pre.log_tail
    /\ log[tree[w.iblock]].num_pages = 2
    /\ log[tree[w.iblock]].pgoff = w.iblock
    /\ tree[w.iblock + 1] = tree[w.iblock]


(* ============ properties of concurrent nova_dax_get_blocks ============== *)
\* threads t and u have both finished a call with create and taking_lock for
\* the same page in the same epoch (the epoch both read is still the current
\* one: no snapshot was created while they ran), both found the page unmapped
\* at their first lookup, and both got a mapping
RacedForPage(t, u) ==
    /\ t # u
    /\ gb[t].pc = "done" /\ gb[u].pc = "done"
    /\ gb[t].create /\ gb[u].create
    /\ gb[t].iblock = gb[u].iblock
    /\ gb[t].epoch_id = gb[u].epoch_id
    /\ gb[t].epoch_id = epoch
    /\ gb[t].hole /\ gb[u].hole
    /\ gb[t].ret > 0 /\ gb[u].ret > 0

\* the committed write entries of an epoch that cover a page
EntriesAt(pg, ep) ==
    {e \in 1 .. log_tail - 1 : /\ log[e].entry_type = FILE_WRITE
                               /\ log[e].pgoff <= pg
                               /\ pg < log[e].pgoff + log[e].num_pages
                               /\ log[e].epoch_id = ep}

\* C28: two concurrent get_or_allocate_blocks calls with want_allocate and
\* take_lock on the same unmapped page in the same epoch make exactly one
\* allocation and one appended entry: the caller that takes the inode lock
\* second re-checks the index under the lock and returns the first caller's
\* block without allocating; every allocation, append and tail update happens
\* while the inode lock is held.
C28_OneAllocationPerPage ==
    /\ [] (\A t, u \in GbThreads :
              RacedForPage(t, u) =>
                 /\ ~(gb[t].allocated > 0 /\ gb[u].allocated > 0)
                 /\ gb[t].locked /\ gb[u].locked
                 /\ gb[t].bno = gb[u].bno
                 /\ Cardinality(EntriesAt(gb[t].iblock, gb[t].epoch_id)) = 1)
    /\ [][(free' # free \/ log' # log \/ log_tail' # log_tail
           \/ tree' # tree) =>
             \E t \in GbThreads :
                /\ gb[t].pc = "locked" /\ gb[t].locked
                /\ \A u \in GbThreads \ {t} : gb[u].pc # "locked"]_vars


(* ============ properties of the later claims on write calls ============ *)
\* a run of a write call has just finished its merge, copy and protection
\* steps and the call goes on
RunDone ==
    /\ pc \in {"loop", "commit"}
    /\ w.op \in {"cow", "inplace"}
    /\ w.step >= 1

\* the blocks the last run wrote to
RunBlocks == w.blocknr .. w.blocknr + w.allocated - 1

\* C31: in every allocation run of a write the partial-block merge happens
\* before the user data is copied and the checksum of each block is computed
\* after both, over a block image equal to the complete block as stored; a
\* checksum is never computed over a partially initialized block.
C31_CsumOverStoredBlock ==
    (RunDone /\ cfg.csum) =>
        \A b \in RunBlocks : csum[b] = CsumOf(BlockImage(mem, b))


\* the blocks the index reaches through the entries of the log
IndexedBlocks ==
    {GetNvmm(log, tree[pg], pg) : pg \in {p \in Pages : tree[p] # 0}}

\* C32: the cleanup of a failed write call frees only blocks that the call
\* itself allocated: after the failed call every free block was free before
\* the call, and no block that the index references is free.
C32_CleanupFreesOwnBlocks ==
    (WriteDone /\ res.ret < 0) =>
        /\ free \subseteq pre.free
        /\ IndexedBlocks \cap free = {}


\* a write call returns with an error from its loop or from its pass
FailedReturn ==
    /\ pc \in {"loop", "reassign"}
    /\ pc' = "done"
    /\ res'.op \in {"cow", "inplace"}
    /\ res'.ret < 0

\* the blocks the error exit of the returning call passes to the allocator
ExitFreed ==
    CleanupFreed(log', w'.blocknr, w'.allocated, w'.begin_tail, w'.upd_tail)

\* the blocks the reassignment pass of the returning call gave back
PassFreed ==
    IF pc = "reassign"
    THEN ReassignFileTree(log, tree, free, snaps, w.begin_tail,
                          log_tail).free \ free
    ELSE {}

NoDuplicate(s) == \A i, j \in 1 .. Len(s) : i # j => s[i] # s[j]

\* C33: a write call that returns an error passes no block to the
\* allocator's free operation twice: the blocks its cleanup frees are
\* pairwise different and none of them was freed by the reassignment pass
\* of the call.
C33_NoDoubleFree ==
    [][FailedReturn =>
          /\ NoDuplicate(ExitFreed)
          /\ PassFreed \cap {ExitFreed[i] : i \in 1 .. Len(ExitFreed)} = {}]_vars


\* C34: an updating flag set by an in-place write call is cleared when the
\* call has returned: while no write call is running, no entry of the log is
\* marked updating.
C34_UpdatingCleared ==
    Quiescent => \A e \in 1 .. Len(log) : log[e].updating = 0


(* ================= properties of the inode's block count ================ *)
\* the blocks a returned call took from the allocator and kept
AllocatedByCall == pre.free \ free

\* C35: a write call raises the inode's block count by exactly the number of
\* blocks it newly allocated; an in-place call all of whose runs reuse an
\* existing extent leaves it unchanged.
C35_BlockCount ==
    WriteDone => w.i_blocks = Cardinality(AllocatedByCall)


(* ================== properties of the failure of a call ================= *)
\* C36: a write call that returns a negative error leaves the content
\* readable at every page, the file size, the file position and the
\* committed log tail as they were before the call.
C36_FailedCallChangesNothing ==
    (WriteDone /\ res.ret < 0) =>
        /\ Content = pre.content
        /\ DoRead(0, FileMax) = pre.read
        /\ isize = pre.isize
        /\ res.ppos = w.ppos
        /\ log_tail = pre.log_tail


(* ================= properties of the block-mapping call ================= *)
\* C37: a block-mapping call with create set does not change the content
\* readable at a page that was mapped before the call, also when the page
\* was covered by an entry of an earlier epoch and the call allocated new
\* blocks for it.
C37_MappedContentKept ==
    (GetBlocksDone /\ w.create) =>
        \A pg \in Pages :
            pre.tree[pg] # 0 =>
                \A o \in pg * BlockSize .. (pg + 1) * BlockSize - 1 :
                    Content[o] = pre.content[o]


(* ========================= properties of the locks ====================== *)
\* the write call holds what it acquired once while it runs and has released
\* it once when it has returned; a call rejected before dax.c:559 has
\* acquired nothing
WriterBalanced ==
    w.op \in {"cow", "inplace"} =>
        /\ w.sb_start <= 1 /\ w.inode_lock = w.sb_start
        /\ w.inode_unlock <= w.inode_lock /\ w.sb_end <= w.sb_start
        /\ WriteLocked => (w.inode_lock = 1 /\ w.inode_unlock = 0
                           /\ w.sb_end = 0)
        /\ pc = "done" => (w.inode_unlock = w.inode_lock
                           /\ w.sb_end = w.sb_start)
        /\ (pc = "done" /\ res.ret = EACCES) => w.sb_start = 0
        /\ (pc = "done" /\ res.ret # EACCES) => w.sb_start = 1

ReaderBalanced ==
    /\ rd.pc = "locked" => (rd.lock_shared = 1 /\ rd.unlock_shared = 0)
    /\ rd.pc = "done" => (rd.lock_shared = 1 /\ rd.unlock_shared = 1)

BlocksBalanced ==
    \A t \in GbThreads :
        /\ gb[t].pc = "lock" => (gb[t].locks = 0 /\ gb[t].unlocks = 0)
        /\ gb[t].pc = "locked" => (gb[t].locks = 1 /\ gb[t].unlocks = 0)
        /\ gb[t].pc = "done" => (gb[t].locks <= 1
                                 /\ gb[t].unlocks = gb[t].locks)

\* C38: on every exit path of a read, of a write call of either policy and
\* of a block-mapping call, each inode lock and each superblock write-start
\* the call acquired has been released exactly once when the call has
\* returned, and nothing is released that the call did not acquire.
C38_LockBalance == WriterBalanced /\ ReaderBalanced /\ BlocksBalanced

\* a write call has returned an error from a run of its loop, a reader has
\* returned, and a block-mapping call has returned after it took the lock
C38_Witness ==
    /\ WriteDone /\ res.ret < 0 /\ w.step >= 1
    /\ w.inode_lock = 1 /\ w.inode_unlock = 1
    /\ rd.pc = "done" /\ rd.unlock_shared = 1
    /\ gb[1].pc = "done" /\ gb[1].locks = 1 /\ gb[1].unlocks = 1


(* ================= properties of a write call's result ================== *)
\* the position a write call starts at: the file size with O_APPEND
StartPos == IF w.append THEN pre.isize ELSE w.ppos

\* a write call of len > 0 that met no failure
CleanWrite ==
    /\ w.op \in {"cow", "inplace"}
    /\ w.len > 0
    /\ w.fail = "none"

\* a run of the loop that met no failure takes at least one block and one
\* byte off what remains, and the loop is left when nothing remains
C39_RunStep ==
    (pc = "loop" /\ pc' \in {"loop", "commit"} /\ w'.fail = "none") =>
        /\ w'.num_blocks < w.num_blocks
        /\ w'.count < w.count
        /\ w'.num_blocks >= 0
        /\ w'.count >= 0
        /\ (pc' = "commit") = (w'.num_blocks = 0)
        /\ (w'.num_blocks = 0) = (w'.count = 0)

C39_Returned ==
    /\ (WriteDone /\ CleanWrite) =>
          /\ w.num_blocks = 0
          /\ w.count = 0
          /\ w.step <= w.total_blocks
          /\ res.ret = w.len
          /\ res.ppos = StartPos + w.len
          /\ isize = Max(pre.isize, StartPos + w.len)
    /\ (WriteDone /\ w.len = 0) =>
          /\ res.ret = 0
          /\ res.ppos = w.ppos
          /\ isize = pre.isize
          /\ Content = pre.content
          /\ log = pre.all_log
          /\ log_tail = pre.log_tail
          /\ free = pre.free
          /\ w.sb_start = 0

\* C39: a write call of len > 0 that meets no failure ends after at most as
\* many runs as its byte range has blocks, with no block and no byte
\* remaining; it returns len, leaves the position at pos + len and the size
\* at the larger of the old size and pos + len, where pos is the file size
\* at the start of the call when O_APPEND is set.  A call with len = 0
\* returns 0 and changes nothing.
C39_CompleteWrite == []C39_Returned /\ [][C39_RunStep]_vars

\* an appending call that took two runs has returned, and the file was not
\* empty when it started
C39_Witness ==
    /\ WriteDone
    /\ CleanWrite
    /\ w.append
    /\ pre.isize > 0
    /\ w.step = 2
    /\ res.ret = w.len


(* ================== properties of a read call's result ================== *)
\* the read that has returned met no error: no checksum failure and no entry
\* that does not cover its page
CleanRead ==
    LET r == ReadRun(w.ppos, w.len)
    IN r.error = 0 /\ ~r.einval

\* C40: a read that meets no error returns exactly
\* min(len, max(0, size - pos)) bytes and advances the position by that
\* amount; it returns no byte at or beyond the file size, and a read at or
\* beyond the size, or of an empty file, returns 0.
C40_ReadLength ==
    (ReadDone /\ CleanRead) =>
        /\ res.ret = Min(w.len, Max(0, isize - w.ppos))
        /\ res.ppos = w.ppos + res.ret
        /\ Len(res.data) = res.ret
        /\ res.ret > 0 => w.ppos + res.ret <= isize
        /\ (w.ppos >= isize \/ isize = 0) => res.ret = 0

\* a read from inside the file that asked for more bytes than the file has
\* behind the position has returned the bytes up to the size
C40_Witness ==
    /\ ReadDone
    /\ CleanRead
    /\ w.ppos > 0
    /\ w.ppos < isize
    /\ w.len > isize - w.ppos
    /\ res.ret = isize - w.ppos
    /\ isize % BlockSize # 0

====
